---- MODULE Spec2Model ----
(***************************************************************************)
(* A model of the nvme-rs driver core: the submission/completion rings,    *)
(* the PRP manager, the I/O queue pair (batched read/write/flush) and the  *)
(* controller facade (init handshake, admin commands, queue pair           *)
(* creation), together with the NVMe controller they talk to.              *)
(*                                                                         *)
(* Host memory obtained from the allocator is uninitialized (memory.rs,    *)
(* Allocator::allocate): the contents of a freshly allocated completion    *)
(* ring are a nondeterministic choice unless a specification says it       *)
(* studies the zeroed case.                                                *)
(***************************************************************************)
EXTENDS Integers, Sequences, FiniteSets, TLC

VARIABLES
    xlate,        \* the allocator's translate(): virtual page -> physical page
    heap,         \* the allocator: [next, live, freed]
    listmem,      \* contents of the PRP list pages: phys addr -> (slot -> u64)
    mem,          \* host memory, one cell per 512 bytes: phys cell -> data
    disk,         \* the namespace's blocks, one cell per 512 bytes
    qp,           \* IoQueuePair: [id, max_transfer_size, stride] and the addresses
                  \* of the DMA regions of its rings, [sub_ring, comp_ring]
    namespace,    \* IoQueuePair.namespace: [id, block_size]
    sub_queue,    \* IoQueuePair.sub_queue: [slots, head, tail]
    comp_queue,   \* IoQueuePair.comp_queue: [slots, head, phase]
    list_pool,    \* IoQueuePair.prp_manager.list_pool.queue
    submitted,    \* IoQueuePair.submitted
    dbell,        \* doorbell registers: MMIO address -> last value stored
    ioctrl,       \* the controller's side of the I/O queue pair
    last,         \* report of the last call made on the queue pair
    retry,        \* observer of the QueueFull / flush / resubmit protocol
    client,       \* position of the scripted caller (round trip)
    pc,           \* position of the facade (Device) caller
    regs,         \* controller registers: [cap, cc, csts, aqa, asq, acq]
    mmio,         \* the register accesses init has made, in order
    data,         \* Device.data (ControllerData) and the doorbell stride
    admin_sq,     \* Device.admin_sq
    admin_cq,     \* Device.admin_cq
    admin_buffer, \* Device.admin_buffer contents (the Identify response)
    next_id,      \* IoQueueId::new's static NEXT_ID
    call,         \* the facade call in progress and its locals
    ret,          \* report of the last facade call that returned
    actrl         \* the controller's side of the admin queue pair

iovars == <<xlate, heap, listmem, mem, disk, qp, namespace, sub_queue, comp_queue,
            list_pool, submitted, ioctrl, last, retry, client>>
devvars == <<pc, regs, mmio, data, admin_sq, admin_cq, admin_buffer, next_id,
             call, ret, actrl>>
vars == <<xlate, heap, listmem, mem, disk, qp, namespace, sub_queue, comp_queue,
          list_pool, submitted, dbell, ioctrl, last, retry, client,
          pc, regs, mmio, data, admin_sq, admin_cq, admin_buffer, next_id,
          call, ret, actrl>>

----------------------------------------------------------------------------
(* Bounds of the model.                                                    *)

\* Largest I/O ring the model creates (rings have 2..MaxQueueLen slots).
MaxQueueLen == 3
\* Number of leading completion-ring slots whose uninitialized contents vary.
MaxGarbageSlots == 2
\* Number of facade calls (after init) the model follows.
MaxCalls == 2
\* Number of read/write/flush calls on the queue pair the model follows.
MaxIoCalls == 5
\* Number of calls of IoQueueId::new the model follows beyond the 2^16-th.
MaxNewIds == 4
\* The counter values the model starts from lie at most this far below 2^16.
MaxIdsLeft == 40
\* Largest queue id of the pairs whose doorbells the model compares.
MaxPairId == 2

----------------------------------------------------------------------------
(* Program constants.                                                      *)

PAGE == 4096
PRP_ENTRIES == 512
PRP_PAYLOAD == 511
POOL_CAPACITY == 32
ADMIN_QUEUE_SIZE == 64
MQES_MODULUS == 32768
IOCQES == 4
IOSQES == 6
U16 == 65536
\* Largest value of the 4-bit field CAP.DSTRD.
DSTRD_MAX == 15

OPCODE_READ == 2
OPCODE_WRITE == 1
OPCODE_IDENTIFY == 6
OPCODE_SUB_QUEUE_CREATE == 1
OPCODE_COMP_QUEUE_CREATE == 5
OPCODE_SUB_QUEUE_DELETE == 0
OPCODE_COMP_QUEUE_DELETE == 4

\* Granularity of the data model: one memory or disk cell is 512 bytes.
CELL == 512

----------------------------------------------------------------------------
(* Small helpers.                                                          *)

\* A faulty div_ceil, which rounds down.
DivFloor(a, b) == a \div b

DivCeil(a, b) == (a + b - 1) \div b

Pow2(n) == 2 ^ n

\* Sparse maps: a key that is absent reads as 0.
Get(f, k) == IF k \in DOMAIN f THEN f[k] ELSE 0

Put(f, k, v) ==
    IF v = 0
    THEN [x \in (DOMAIN f) \ {k} |-> f[x]]
    ELSE [x \in (DOMAIN f) \cup {k} |-> IF x = k THEN v ELSE f[x]]

EmptyMap == [x \in {} |-> 0]

----------------------------------------------------------------------------
(* The allocator (collaborator): translate, allocate, deallocate.          *)

\* The virtual address space of the model: 32 pages from 0x10000.
VBase == 16
VPages == 32
\* Two caller buffers of four pages each, and the allocator's own pages.
BufA == VBase * PAGE
BufB == (VBase + 5) * PAGE
HeapBase == VBase + 10

\* translate() of an identity-offset allocator (virt + 0x70000) ...
LinearMap == [v \in VBase..(VBase + VPages - 1) |-> v + 112]
\* ... and of a page-table backed one, whose physical pages are scattered.
ScatterMap == [v \in VBase..(VBase + VPages - 1) |-> 128 + (((v - VBase) * 5) % VPages)]

Translations == {LinearMap, ScatterMap}

translate(addr) == xlate[addr \div PAGE] * PAGE + (addr % PAGE)

\* Dma::allocate: one page from the allocator, with its translation.
DmaAllocate(hp) ==
    LET addr == hp.next * PAGE
    IN [dma |-> [addr |-> addr, phys_addr |-> translate(addr)],
        heap |-> [hp EXCEPT !.next = hp.next + 1, !.live = hp.live \cup {addr}]]

\* Dma::deallocate.
DmaDeallocate(hp, dma) ==
    [hp EXCEPT !.live = hp.live \ {dma.addr}, !.freed = Append(hp.freed, dma.addr)]

----------------------------------------------------------------------------
(* memory.rs: PrpResult and PrpManager.                                    *)

Single(prp1) == [kind |-> "Single", prp1 |-> prp1, prp2 |-> 0, lists |-> <<>>]
Double(prp1, prp2) == [kind |-> "Double", prp1 |-> prp1, prp2 |-> prp2, lists |-> <<>>]
List(prp1, lists) == [kind |-> "List", prp1 |-> prp1, prp2 |-> 0, lists |-> lists]

\* PrpResult::get_prp
get_prp(r) ==
    IF r.kind = "Single" THEN <<r.prp1, 0>>
    ELSE IF r.kind = "Double" THEN <<r.prp1, r.prp2>>
    ELSE <<r.prp1, r.lists[1].phys_addr>>

\* The value create stores in slot i of list list_idx.
list_entry(address, prp2_start, k) == prp2_start + k * PAGE

\* The inner loop of create: prp_list[i] = ... for every i from i up to
\* entries - 1; the other slots of the page keep what they held.
fill_list(page, address, prp2_start, list_idx, i, entries) ==
    [k \in (DOMAIN page) \cup (i..(entries - 1)) |->
        IF k \in i..(entries - 1)
        THEN list_entry(address, prp2_start, list_idx * PRP_PAYLOAD + k)
        ELSE page[k]]

\* The outer loop of create: one list page per iteration, taken from the
\* pool (FixedSizeQueue::pop) or, when the pool is empty, from the allocator.
\* The page is not cleared: it keeps what memory held at its address (what
\* an earlier transfer stored, or what the allocator handed out).
\* st is [pool, heap, listmem, lists].
RECURSIVE build_lists(_, _, _, _, _, _)
build_lists(st, address, prp2_start, remaining, lists_needed, list_idx) ==
    IF list_idx >= lists_needed THEN st
    ELSE
      LET entries == IF list_idx = lists_needed - 1
                     THEN remaining - list_idx * PRP_PAYLOAD
                     ELSE PRP_PAYLOAD
          fresh == DmaAllocate(st.heap)
          pooled == st.pool # <<>>
          dma == IF pooled THEN Head(st.pool) ELSE fresh.dma
          old == IF dma.phys_addr \in DOMAIN st.listmem
                 THEN st.listmem[dma.phys_addr] ELSE EmptyMap
          page == fill_list(old, address, prp2_start, list_idx, 0, entries)
      IN build_lists(
            [pool |-> IF pooled THEN Tail(st.pool) ELSE st.pool,
             heap |-> IF pooled THEN st.heap ELSE fresh.heap,
             listmem |-> [p \in (DOMAIN st.listmem) \cup {dma.phys_addr} |->
                            IF p = dma.phys_addr THEN page ELSE st.listmem[p]],
             lists |-> Append(st.lists, dma)],
            address, prp2_start, remaining, lists_needed, list_idx + 1)

\* The chaining loop of create: slot 511 of list k points to list k+1.
RECURSIVE chain_lists(_, _, _)
chain_lists(lm, lists, index) ==
    IF index >= Len(lists) THEN lm
    ELSE chain_lists(
            [lm EXCEPT ![lists[index].phys_addr] =
                Put(@, PRP_ENTRIES - 1, lists[index + 1].phys_addr)],
            lists, index + 1)

\* PrpManager::create.  Returns [err, result, pool, heap, listmem].
\* With count = 0 (no bytes at a page-aligned address) `count - 1` is an
\* overflow of usize: a panic where overflow is checked, and otherwise a
\* request for a vector of about 2^55 list pages, which no allocator
\* satisfies; either way the call does not return ("Panic").
create(pool, hp, lm, address, bytes) ==
    LET count == DivCeil((address % PAGE) + bytes, PAGE)
        prp1 == translate(address)
        prp2_start == translate(address + PAGE)
        same == [pool |-> pool, heap |-> hp, listmem |-> lm]
    IN IF address % 4 # 0
       THEN [err |-> "NotAlignedToDword", result |-> Single(0)] @@ same
       ELSE IF count = 1
       THEN [err |-> "Ok", result |-> Single(prp1)] @@ same
       ELSE IF address % PAGE # 0
       THEN [err |-> "NotAlignedToPage", result |-> Single(0)] @@ same
       ELSE IF count = 2
       THEN [err |-> "Ok", result |-> Double(prp1, prp2_start)] @@ same
       ELSE IF count = 0
       THEN [err |-> "Panic", result |-> Single(0)] @@ same
       ELSE
         LET remaining == count - 1
             lists_needed == DivCeil(remaining - 1, PRP_PAYLOAD)
             st == build_lists([pool |-> pool, heap |-> hp, listmem |-> lm, lists |-> <<>>],
                               address, prp2_start, remaining, lists_needed, 0)
         IN [err |-> "Ok", result |-> List(prp1, st.lists), pool |-> st.pool,
             heap |-> st.heap, listmem |-> chain_lists(st.listmem, st.lists, 1)]

\* PrpManager::release of the pages of one result.  st is [pool, heap].
RECURSIVE release_pages(_, _)
release_pages(st, lists) ==
    IF lists = <<>> THEN st
    ELSE release_pages(
            IF Len(st.pool) = POOL_CAPACITY
            THEN [pool |-> st.pool, heap |-> DmaDeallocate(st.heap, Head(lists))]
            ELSE [pool |-> Append(st.pool, Head(lists)), heap |-> st.heap],
            Tail(lists))

\* A faulty release, which puts every page back whatever the pool holds.
release_keep_all(st, prp_result) ==
    IF prp_result.kind = "List"
    THEN [pool |-> st.pool \o prp_result.lists, heap |-> st.heap]
    ELSE st

\* PrpManager::release.
release(st, prp_result) ==
    IF prp_result.kind = "List" THEN release_pages(st, prp_result.lists) ELSE st

\* flush's loop: release every result of the in-flight queue, front first.
RECURSIVE release_all(_, _)
release_all(st, results) ==
    IF results = <<>> THEN st
    ELSE release_all(release(st, Head(results)), Tail(results))

----------------------------------------------------------------------------
(* cmd.rs: the command encoder.  Fields that stay zero are left out.       *)

Command(opcode, cmd_id, ns_id, data_ptr, cmd_10, cmd_11, cmd_12) ==
    [opcode |-> opcode, cmd_id |-> cmd_id, ns_id |-> ns_id,
     prp1 |-> data_ptr[1], prp2 |-> data_ptr[2],
     cmd_10 |-> cmd_10, cmd_11 |-> cmd_11, cmd_12 |-> cmd_12]

ZeroCommand == Command(0, 0, 0, <<0, 0>>, 0, 0, 0)

\* A 64-bit lba is kept as its two dwords, [lo, hi]: `lba as u32` is its low
\* dword and `(lba >> 32) as u32` its high one.
Lba(lo, hi) == [lo |-> lo, hi |-> hi]
LowDword(lba) == lba.lo
HighDword(lba) == lba.hi

\* Command::read_write
read_write(cmd_id, ns_id, lba, block_count, data_ptr, is_write) ==
    Command(IF is_write THEN OPCODE_WRITE ELSE OPCODE_READ, cmd_id, ns_id, data_ptr,
            LowDword(lba), HighDword(lba), block_count)

\* A faulty encoder, which leaves the completion queue id out of cmd11.
create_submission_queue_without_cqid(cmd_id, queue_id, address, size, cqueue_id) ==
    Command(OPCODE_SUB_QUEUE_CREATE, cmd_id, 0, <<address, 0>>,
            size * U16 + queue_id, 1, 0)

\* Command::create_submission_queue
create_submission_queue(cmd_id, queue_id, address, size, cqueue_id) ==
    Command(OPCODE_SUB_QUEUE_CREATE, cmd_id, 0, <<address, 0>>,
            size * U16 + queue_id, cqueue_id * U16 + 1, 0)

\* Command::create_completion_queue
create_completion_queue(cmd_id, queue_id, address, size) ==
    Command(OPCODE_COMP_QUEUE_CREATE, cmd_id, 0, <<address, 0>>,
            size * U16 + queue_id, 1, 0)

\* Command::delete_completion_queue
delete_completion_queue(cmd_id, queue_id) ==
    Command(OPCODE_COMP_QUEUE_DELETE, cmd_id, 0, <<0, 0>>, queue_id, 0, 0)

\* Command::delete_submission_queue
delete_submission_queue(cmd_id, queue_id) ==
    Command(OPCODE_SUB_QUEUE_DELETE, cmd_id, 0, <<0, 0>>, queue_id, 0, 0)

\* Command::identify; target is <<"Namespace", id>>, <<"Controller", 0>> or
\* <<"NamespaceList", base>>.
identify(cmd_id, address, target) ==
    LET ns_id == IF target[1] = "Controller" THEN 0 ELSE target[2]
        cmd_10 == IF target[1] = "Namespace" THEN 0
                  ELSE IF target[1] = "Controller" THEN 1 ELSE 2
    IN Command(OPCODE_IDENTIFY, cmd_id, ns_id, <<address, 0>>, cmd_10, 0, 0)

----------------------------------------------------------------------------
(* queues.rs: the rings.  A ring's SIZE is the number of its slots.        *)

\* Completion: the two fields the driver reads (sq_head, status); the
\* others (command_specific, sq_id, cmd_id) are private and never read.
Completion(sq_head, status) == [sq_head |-> sq_head, status |-> status]

ZeroCompletion == Completion(0, 0)

Size(q) == Cardinality(DOMAIN q.slots)

\* SubQueue::new; the command slots are never read by the host.
SubQueueNew(size) ==
    [slots |-> [i \in 0..(size - 1) |-> ZeroCommand], head |-> 0, tail |-> 0]

\* CompQueue::new over the slot contents the allocator handed out.
CompQueueNew(slots) == [slots |-> slots, head |-> 0, phase |-> TRUE]

\* The contents a freshly allocated completion ring can have: the first
\* MaxGarbageSlots slots are zero or hold what an earlier owner of the page
\* left there (here: an entry whose status bit 0 is set); the rest are zero.
StaleCompletion == Completion(0, 1)

UninitCompSlots(size) ==
    {[i \in 0..(size - 1) |-> IF i \in stale THEN StaleCompletion ELSE ZeroCompletion] :
        stale \in SUBSET {i \in 0..(size - 1) : i < MaxGarbageSlots}}

ZeroedCompSlots(size) == [i \in 0..(size - 1) |-> ZeroCompletion]

\* SubQueue::try_push: the full test.
sub_queue_full(q) == q.head = (q.tail + 1) % Size(q)

\* A faulty try_push, which stores the command before it tests for room.
try_push_store_first(q, entry) ==
    LET t == (q.tail + 1) % Size(q)
        stored == [q EXCEPT !.slots[q.tail] = entry]
    IN IF sub_queue_full(q)
       THEN [ok |-> FALSE, queue |-> stored, tail |-> q.tail]
       ELSE [ok |-> TRUE, queue |-> [stored EXCEPT !.tail = t], tail |-> t]

\* A faulty try_push, which returns the tail it stored at instead of the
\* tail it advanced to.
try_push_return_old_tail(q, entry) ==
    IF sub_queue_full(q)
    THEN [ok |-> FALSE, queue |-> q, tail |-> q.tail]
    ELSE [ok |-> TRUE,
          queue |-> [q EXCEPT !.slots[q.tail] = entry,
                              !.tail = (q.tail + 1) % Size(q)],
          tail |-> q.tail]

\* SubQueue::try_push.  Returns [ok, queue, tail].
try_push(q, entry) ==
    IF sub_queue_full(q)
    THEN [ok |-> FALSE, queue |-> q, tail |-> q.tail]
    ELSE LET t == (q.tail + 1) % Size(q)
         IN [ok |-> TRUE,
             queue |-> [q EXCEPT !.slots[q.tail] = entry, !.tail = t],
             tail |-> t]

\* A faulty try_pop, which never toggles the phase.
try_pop_keep_phase(q) ==
    LET entry == q.slots[q.head]
    IN IF ((entry.status % 2) = 1) = q.phase
       THEN [some |-> TRUE,
             queue |-> [q EXCEPT !.head = (q.head + 1) % Size(q)],
             head |-> (q.head + 1) % Size(q), entry |-> entry]
       ELSE [some |-> FALSE, queue |-> q, head |-> q.head, entry |-> entry]

\* A faulty try_pop, which takes every entry whose tag is set for valid.
try_pop_ignore_phase(q) ==
    LET entry == q.slots[q.head]
        h == (q.head + 1) % Size(q)
    IN IF (entry.status % 2) = 1
       THEN [some |-> TRUE,
             queue |-> [q EXCEPT !.head = h,
                                 !.phase = IF h = 0 THEN ~q.phase ELSE q.phase],
             head |-> h, entry |-> entry]
       ELSE [some |-> FALSE, queue |-> q, head |-> q.head, entry |-> entry]

\* CompQueue::try_pop.  Returns [some, queue, head, entry].
try_pop(q) ==
    LET entry == q.slots[q.head]
        h == (q.head + 1) % Size(q)
    IN IF ((entry.status % 2) = 1) = q.phase
       THEN [some |-> TRUE,
             queue |-> [q EXCEPT !.head = h,
                                 !.phase = IF h = 0 THEN ~q.phase ELSE q.phase],
             head |-> h, entry |-> entry]
       ELSE [some |-> FALSE, queue |-> q, head |-> q.head, entry |-> entry]

\* A faulty jump, which keeps the phase when it crosses the end of the ring.
pop_n_jump_keep_phase(q, step) == [q EXCEPT !.head = (q.head + step - 1) % Size(q)]

\* CompQueue::pop_n up to its call of pop: the jump of head by step - 1.
pop_n_jump(q, step) ==
    LET h == q.head + step - 1
    IN [q EXCEPT !.head = h % Size(q),
                 !.phase = IF h >= Size(q) THEN ~q.phase ELSE q.phase]

\* CompQueue::pop_n: pop() spins until try_pop succeeds, so a caller of
\* pop_n proceeds only from a state where .some holds.
pop_n(q, step) == try_pop(pop_n_jump(q, step))

\* CompQueue::pop
pop(q) == try_pop(q)

----------------------------------------------------------------------------
(* device.rs: DoorbellHelper.                                              *)

MmioBase == 0

SubTail(qid) == <<"SubTail", qid>>
CompHead(qid) == <<"CompHead", qid>>

\* DoorbellHelper::write: the address stored to (u16 index arithmetic).
DoorbellAddr(bell, stride_exp) ==
    LET stride == (4 * Pow2(stride_exp)) % U16
        base == MmioBase + 4096
        index == IF bell[1] = "SubTail" THEN (bell[2] * 2) % U16
                 ELSE (bell[2] * 2 + 1) % U16
    IN base + ((index * stride) % U16)

----------------------------------------------------------------------------
(* The NVMe controller's side of the I/O queue pair.                        *)

\* Status fields (bits 1..15 of the status word) the controller reports
\* for a read or write: success and a generic error (SC = 1).
IoStatusFields == {0, 1}

DbRead(bell) == Get(dbell, DoorbellAddr(bell, qp.stride))

\* The physical address slot e of a PRP list holds, following the chain
\* pointer in the last slot while more than one page of entries remains.
RECURSIVE ListWalk(_, _, _)
ListWalk(page, e, total) ==
    LET ents == IF page \in DOMAIN listmem THEN listmem[page] ELSE EmptyMap
    IN IF total <= PRP_ENTRIES \/ e < PRP_ENTRIES - 1
       THEN Get(ents, e)
       ELSE ListWalk(Get(ents, PRP_ENTRIES - 1), e - (PRP_ENTRIES - 1),
                     total - (PRP_ENTRIES - 1))

\* The physical base of the j-th memory page of a command's data.
PageBase(cmd, j, npages) ==
    IF j = 0 THEN cmd.prp1 - (cmd.prp1 % PAGE)
    ELSE IF npages = 2 THEN cmd.prp2
    ELSE ListWalk(cmd.prp2, j - 1, npages - 1)

\* The memory cell and the disk cell of the g-th 512 bytes of a command.
MemCell(cmd, g, nbytes) ==
    LET pos == (cmd.prp1 % PAGE) + g * CELL
        npages == DivCeil((cmd.prp1 % PAGE) + nbytes, PAGE)
    IN (PageBase(cmd, pos \div PAGE, npages) + (pos % PAGE)) \div CELL

DiskCell(cmd, g) ==
    <<cmd.cmd_11, cmd.cmd_10 * (namespace.block_size \div CELL) + g>>

\* The data transfer of a read or write command, 512 bytes at a time.
RECURSIVE Transfer(_, _, _, _)
Transfer(cmd, g, m, d) ==
    LET nbytes == (cmd.cmd_12 + 1) * namespace.block_size
    IN IF g * CELL >= nbytes THEN [mem |-> m, disk |-> d]
       ELSE IF cmd.opcode = OPCODE_WRITE
       THEN Transfer(cmd, g + 1, m, Put(d, DiskCell(cmd, g), Get(m, MemCell(cmd, g, nbytes))))
       ELSE Transfer(cmd, g + 1, Put(m, MemCell(cmd, g, nbytes), Get(d, DiskCell(cmd, g))), d)

\* The controller fetches the next command of the submission ring.
CtrlIoFetch ==
    /\ ioctrl.sq_head # DbRead(SubTail(qp.id))
    /\ ioctrl' = [ioctrl EXCEPT
                    !.sq_head = (ioctrl.sq_head + 1) % Size(sub_queue),
                    !.pending = Append(ioctrl.pending, sub_queue.slots[ioctrl.sq_head])]
    /\ UNCHANGED <<xlate, heap, listmem, mem, disk, qp, namespace, sub_queue,
                   comp_queue, list_pool, submitted, dbell, last, retry, client>>
    /\ UNCHANGED devvars

\* The controller executes the oldest fetched command and posts its
\* completion, with the phase tag of its current pass, in the next slot.
CtrlIoComplete(sf) ==
    /\ ioctrl.pending # <<>>
    /\ (ioctrl.cq_tail + 1) % Size(comp_queue) # DbRead(CompHead(qp.id))
    /\ LET cmd == Head(ioctrl.pending)
           t == (ioctrl.cq_tail + 1) % Size(comp_queue)
           x == IF sf = 0 THEN Transfer(cmd, 0, mem, disk)
                ELSE [mem |-> mem, disk |-> disk]
           entry == Completion(ioctrl.sq_head,
                               sf * 2 + (IF ioctrl.phase THEN 1 ELSE 0))
       IN /\ comp_queue' = [comp_queue EXCEPT !.slots[ioctrl.cq_tail] = entry]
          /\ ioctrl' = [ioctrl EXCEPT
                          !.pending = Tail(ioctrl.pending),
                          !.cq_tail = t,
                          !.phase = IF t = 0 THEN ~ioctrl.phase ELSE ioctrl.phase]
          /\ mem' = x.mem
          /\ disk' = x.disk
    /\ UNCHANGED <<xlate, heap, listmem, qp, namespace, sub_queue,
                   list_pool, submitted, dbell, last, retry, client>>
    /\ UNCHANGED devvars

----------------------------------------------------------------------------
(* io.rs: IoQueuePair.                                                     *)

NoReq == [bytes |-> 0, lba |-> Lba(0, 0), address |-> 0, write |-> FALSE]

\* What a call returned and did: its result, the doorbell stores it made,
\* and for flush the number of commands it completed and the entry it popped.
Report(op, res, code, db, n, entry) ==
    [op |-> op, res |-> res, code |-> code, db |-> db, n |-> n, entry |-> entry]

\* The observer of the retry protocol "QueueFull, flush, resubmit".
\* stage is "full" after a submission that returned QueueFull, "flushed"
\* after the flush that follows it (flushed: that flush's result), "again"
\* when the same request, submitted right after that flush, is refused once
\* more, and "accepted" when it is taken.
NoRetry == [stage |-> "none", req |-> NoReq, flushed |-> "Ok"]

RetryAfterSubmit(req, res) ==
    IF retry.stage = "flushed" /\ retry.req = req
    THEN [retry EXCEPT !.stage = IF res = "QueueFull" THEN "again" ELSE "accepted"]
    ELSE IF res = "QueueFull" THEN [stage |-> "full", req |-> req, flushed |-> "Ok"]
    ELSE NoRetry

RetryAfterFlush(res) ==
    IF retry.stage \in {"full", "again"}
    THEN [stage |-> "flushed", req |-> retry.req, flushed |-> res]
    ELSE NoRetry

\* flush: what becomes of sub_queue once the final entry has been popped.
flush_head(q, entry, status) ==
    IF status # 0 THEN q ELSE [q EXCEPT !.head = entry.sq_head]

\* IoQueuePair::submit_and_track.  "Panic": the call does not return.
\* `blocks as u16 - 1` with blocks a multiple of 2^16 (no bytes at all, in
\* the model) is an overflow of u16: a panic in a build that checks
\* overflow, 65535 in one that does not.
submit_and_track(bytes, lba, address, write) ==
    LET req == [bytes |-> bytes, lba |-> lba, address |-> address, write |-> write]
        op == IF write THEN "write" ELSE "read"
        Fail(res) ==
            /\ last' = Report(op, res, 0, <<>>, 0, ZeroCompletion)
            /\ retry' = RetryAfterSubmit(req, res)
            /\ UNCHANGED <<heap, listmem, sub_queue, list_pool, submitted, dbell>>
    IN
    /\ IF bytes > qp.max_transfer_size THEN Fail("IoSizeExceedsMdts")
       ELSE IF bytes % namespace.block_size # 0 THEN Fail("InvalidBufferSize")
       ELSE
         LET c == create(list_pool, heap, listmem, address, bytes)
         IN IF c.err # "Ok" THEN Fail(c.err)
            ELSE
              LET prp == get_prp(c.result)
                  blocks == bytes \div namespace.block_size
                  command == read_write(sub_queue.tail % U16, namespace.id, lba,
                                        ((blocks % U16) + U16 - 1) % U16, prp, write)
                  pushed == try_push(sub_queue, command)
                  bell == DoorbellAddr(SubTail(qp.id), qp.stride)
                  rel == release([pool |-> c.pool, heap |-> c.heap], c.result)
                  Submit ==
                    IF pushed.ok
                    THEN /\ sub_queue' = pushed.queue
                         /\ dbell' = [a \in (DOMAIN dbell) \cup {bell} |->
                                        IF a = bell THEN pushed.tail ELSE dbell[a]]
                         /\ submitted' = Append(submitted, c.result)
                         /\ list_pool' = c.pool
                         /\ heap' = c.heap
                         /\ listmem' = c.listmem
                         /\ last' = Report(op, "Ok", 0, <<<<bell, pushed.tail>>>>, 0,
                                           ZeroCompletion)
                         /\ retry' = RetryAfterSubmit(req, "Ok")
                    ELSE /\ list_pool' = rel.pool
                         /\ heap' = rel.heap
                         /\ listmem' = c.listmem
                         /\ last' = Report(op, "QueueFull", 0, <<>>, 0, ZeroCompletion)
                         /\ retry' = RetryAfterSubmit(req, "QueueFull")
                         /\ sub_queue' = pushed.queue
                         /\ UNCHANGED <<submitted, dbell>>
                  Overflow ==
                    /\ last' = Report(op, "Panic", 0, <<>>, 0, ZeroCompletion)
                    /\ retry' = RetryAfterSubmit(req, "Panic")
                    /\ list_pool' = c.pool
                    /\ heap' = c.heap
                    /\ listmem' = c.listmem
                    /\ UNCHANGED <<sub_queue, submitted, dbell>>
              IN IF blocks % U16 = 0 THEN Overflow \/ Submit ELSE Submit
    /\ UNCHANGED <<xlate, mem, disk, qp, namespace, comp_queue, ioctrl>>
    /\ UNCHANGED devvars

\* IoQueuePair::read
read(dest, bytes, lba) == submit_and_track(bytes, lba, dest, FALSE)

\* IoQueuePair::write
write(src, bytes, lba) == submit_and_track(bytes, lba, src, TRUE)

\* IoQueuePair::flush.  With commands in flight it returns once pop_n's
\* pop() has found the final entry valid.
flush ==
    LET num_to_complete == Len(submitted)
    IN
    /\ IF num_to_complete = 0
       THEN /\ last' = Report("flush", "Ok", 0, <<>>, 0, ZeroCompletion)
            /\ retry' = RetryAfterFlush("Ok")
            /\ UNCHANGED <<heap, sub_queue, comp_queue, list_pool, submitted, dbell>>
       ELSE
         LET popped == pop_n(comp_queue, num_to_complete)
             bell == DoorbellAddr(CompHead(qp.id), qp.stride)
             rel == release_all([pool |-> list_pool, heap |-> heap], submitted)
             status == (popped.entry.status \div 2) % 256
         IN /\ popped.some
            /\ comp_queue' = popped.queue
            /\ dbell' = [a \in (DOMAIN dbell) \cup {bell} |->
                           IF a = bell THEN popped.head ELSE dbell[a]]
            /\ submitted' = <<>>
            /\ list_pool' = rel.pool
            /\ heap' = rel.heap
            /\ sub_queue' = flush_head(sub_queue, popped.entry, status)
            /\ last' = Report("flush",
                              IF status # 0 THEN "CommandFailed" ELSE "Ok", status,
                              <<<<bell, popped.head>>>>, num_to_complete, popped.entry)
            /\ retry' = RetryAfterFlush(IF status # 0 THEN "CommandFailed" ELSE "Ok")
    /\ UNCHANGED <<xlate, listmem, mem, disk, qp, namespace, ioctrl>>
    /\ UNCHANGED devvars

----------------------------------------------------------------------------
(* device.rs: the registers and Device::init.                               *)
(*                                                                          *)
(* A register wider than the fields the driver uses is kept by fields:      *)
(* CAP as [mqes, dstrd, mpsmin] (bits 15:0, 35:32, 51:48), CC as            *)
(* [en, low, mid, iosqes, iocqes, high] (bits 0, 3:1, 15:4, 19:16, 23:20,   *)
(* 31:24), CSTS as [rdy], AQA as [asqs, acqs].                              *)

Cap(mqes, dstrd, mpsmin) == [mqes |-> mqes, dstrd |-> dstrd, mpsmin |-> mpsmin]

Cc(en, low, mid, iosqes, iocqes, high) ==
    [en |-> en, low |-> low, mid |-> mid, iosqes |-> iosqes, iocqes |-> iocqes,
     high |-> high]

\* init: (cap >> 32) as u8 & 0xF
doorbell_stride(cap) == cap.dstrd % 16
\* init: 1 << (((cap >> 48) as u8 & 0xF) + 12)
min_pagesize(cap) == Pow2((cap.mpsmin % 16) + 12)
\* init: (cap & 0x7FFF) as u16 + 1
max_queue_entries(cap) == (cap.mqes % MQES_MODULUS) + 1

\* init: CC & !1
cc_disable(cc) == [cc EXCEPT !.en = 0]
\* A faulty configuration value, which also sets EN.
cc_configure_and_enable(cc) ==
    [cc EXCEPT !.en = 1, !.mid = 0, !.iosqes = IOSQES, !.iocqes = IOCQES]
\* init: (CC & 0xFF00_000F) | (4 << 20) | (6 << 16)
cc_configure(cc) == [cc EXCEPT !.mid = 0, !.iosqes = IOSQES, !.iocqes = IOCQES]
\* init: CC | 1
cc_enable(cc) == [cc EXCEPT !.en = 1]
\* init: (ADMIN_QUEUE_SIZE - 1) << 16 | (ADMIN_QUEUE_SIZE - 1)
aqa_value == [asqs |-> ADMIN_QUEUE_SIZE - 1, acqs |-> ADMIN_QUEUE_SIZE - 1]

\* get_reg / set_reg (and the doorbell stores of init) as entries of mmio;
\* step names the statement of init that made the access.
Rd(reg, val, step) == [op |-> "r", reg |-> reg, val |-> val, step |-> step]
Wr(reg, val, step) == [op |-> "w", reg |-> reg, val |-> val, step |-> step]

\* DoorbellHelper::write: the store.
doorbell_write(db, addr, val) ==
    [a \in (DOMAIN db) \cup {addr} |-> IF a = addr THEN val ELSE db[a]]

\* The allocations of Device::init's struct expression, in field order.
FreshHeap == [next |-> HeapBase, live |-> {}, freed |-> <<>>]

DeviceNew ==
    LET sq == DmaAllocate(FreshHeap)
        cq == DmaAllocate(sq.heap)
        buffer == DmaAllocate(cq.heap)
    IN [admin_sq |-> sq.dma, admin_cq |-> cq.dma, admin_buffer |-> buffer.dma,
        heap |-> buffer.heap]

\* What the bytes of the scratch buffer read as when they do not hold the
\* response the driver takes them for (the buffer is allocated
\* uninitialized): byte 77, the dwords of an id list, the fields of a
\* namespace structure.
StrayMdts == {0, 1}
StrayIds == {<<>>, <<2>>}
StrayNamespaceData == {[lbads |-> 0, capacity |-> 0], [lbads |-> 9, capacity |-> 1]}

BufferMdts(buffer) ==
    IF buffer.kind = "controller" THEN {buffer.mdts} ELSE StrayMdts
BufferIds(buffer) ==
    IF buffer.kind = "nslist" THEN {buffer.ids} ELSE StrayIds
BufferNamespaceData(buffer) ==
    IF buffer.kind = "ns" THEN {[lbads |-> buffer.lbads, capacity |-> buffer.capacity]}
    ELSE StrayNamespaceData

\* exec_admin up to the doorbell store: push blocks while the ring is full.
exec_admin_submit(sq, db, cmd) ==
    LET pushed == try_push(sq, cmd)
        bell == DoorbellAddr(SubTail(0), data.stride)
    IN [ok |-> pushed.ok, sq |-> pushed.queue, bell |-> bell, tail |-> pushed.tail,
        db |-> doorbell_write(db, bell, pushed.tail)]

\* exec_admin from its pop on: pop blocks until the slot at head is valid.
exec_admin_complete(cq, db) ==
    LET popped == pop(cq)
        status == (popped.entry.status \div 2) % 256
    IN [some |-> popped.some, cq |-> popped.queue, entry |-> popped.entry,
        db |-> doorbell_write(db, DoorbellAddr(CompHead(0), data.stride), popped.head),
        status |-> status,
        res |-> IF status # 0 THEN "CommandFailed" ELSE "Ok"]

\* The pair the caller of the facade holds: none.
NoPair ==
    /\ qp = [id |-> 0, max_transfer_size |-> 0, stride |-> 0,
             sub_ring |-> 0, comp_ring |-> 0]
    /\ namespace = [id |-> 0, block_size |-> 512]
    /\ sub_queue = SubQueueNew(2)
    /\ comp_queue = CompQueueNew(ZeroedCompSlots(2))
    /\ list_pool = <<>>
    /\ submitted = <<>>

NoCall == [op |-> "none", len |-> 0, queue_id |-> 0, namespace |-> [id |-> 0, block_size |-> 512],
           cslots |-> <<>>, cmd_id |-> 0, ids |-> <<>>, found |-> <<>>,
           entry |-> ZeroCompletion, execs |-> 0, sub_ring |-> 0, comp_ring |-> 0,
           base |-> 0]

\* What a facade call returned.
Returned(op, res, code, value) == [op |-> op, res |-> res, code |-> code, value |-> value]

pairvars == <<qp, namespace, sub_queue, comp_queue, list_pool, submitted>>
idlevars == <<xlate, listmem, mem, disk, ioctrl, last, retry>>

\* The completion exec_admin consumed, kept with the call.
Consumed(c, done) == [c EXCEPT !.entry = done.entry, !.execs = c.execs + 1]

\* init, lines 173-179: read CAP, clear CC.EN.
InitDisable ==
    /\ pc = "init"
    /\ data' = [data EXCEPT !.stride = doorbell_stride(regs.cap),
                            !.min_pagesize = min_pagesize(regs.cap),
                            !.max_queue_entries = max_queue_entries(regs.cap)]
    /\ regs' = [regs EXCEPT !.cc = cc_disable(regs.cc)]
    /\ mmio' = mmio \o <<Rd("CAP", regs.cap, "cap"), Rd("CC", regs.cc, "disable"),
                         Wr("CC", cc_disable(regs.cc), "disable")>>
    /\ pc' = "wait_disabled"
    /\ UNCHANGED <<admin_sq, admin_cq, admin_buffer, next_id, call, ret, actrl,
                   dbell, heap, client>>
    /\ UNCHANGED pairvars
    /\ UNCHANGED idlevars

\* init, lines 180-192: leave the poll once CSTS.RDY reads 0, program the
\* admin rings and the entry sizes, set CC.EN.
InitProgram ==
    /\ pc = "wait_disabled"
    /\ regs.csts.rdy = 0
    /\ LET configured == cc_configure(regs.cc)
           enabled == cc_enable(configured)
       IN /\ regs' = [regs EXCEPT !.asq = DeviceNew.admin_sq.phys_addr,
                                  !.acq = DeviceNew.admin_cq.phys_addr,
                                  !.aqa = aqa_value,
                                  !.cc = enabled]
          /\ mmio' = mmio \o <<Rd("CSTS", regs.csts, "disable"),
                               Wr("ASQ", DeviceNew.admin_sq.phys_addr, "asq"),
                               Wr("ACQ", DeviceNew.admin_cq.phys_addr, "acq"),
                               Wr("AQA", aqa_value, "aqa"),
                               Rd("CC", regs.cc, "configure"),
                               Wr("CC", configured, "configure"),
                               Rd("CC", configured, "enable"),
                               Wr("CC", enabled, "enable")>>
    /\ pc' = "wait_enabled"
    /\ UNCHANGED <<data, admin_sq, admin_cq, admin_buffer, next_id, call, ret, actrl,
                   dbell, heap, client>>
    /\ UNCHANGED pairvars
    /\ UNCHANGED idlevars

\* init, lines 193-201 (exec_admin 293-295): leave the poll once CSTS.RDY
\* reads 1, post Identify(Controller) and ring the admin submit doorbell.
InitIdentify ==
    /\ pc = "wait_enabled"
    /\ regs.csts.rdy = 1
    /\ LET cmd == identify(admin_sq.tail % U16, DeviceNew.admin_buffer.phys_addr,
                           <<"Controller", 0>>)
           sub == exec_admin_submit(admin_sq, dbell, cmd)
       IN /\ sub.ok
          /\ admin_sq' = sub.sq
          /\ dbell' = sub.db
          /\ mmio' = mmio \o <<Rd("CSTS", regs.csts, "enable"),
                               Wr("doorbell", <<sub.bell, sub.tail>>, "identify")>>
    /\ pc' = "identify"
    /\ UNCHANGED <<regs, data, admin_cq, admin_buffer, next_id, call, ret, actrl,
                   heap, client>>
    /\ UNCHANGED pairvars
    /\ UNCHANGED idlevars

\* init, exec_admin 297-306 and lines 203-219: consume the completion of
\* Identify and derive max_transfer_size from byte 77 of the response.
InitFinish ==
    /\ pc = "identify"
    /\ LET done == exec_admin_complete(admin_cq, dbell)
       IN /\ done.some
          /\ admin_cq' = done.cq
          /\ dbell' = done.db
          /\ call' = Consumed(call, done)
          /\ IF done.res # "Ok"
             THEN /\ pc' = "failed"
                  /\ ret' = Returned("init", done.res, done.status, 0)
                  /\ data' = data
             ELSE /\ pc' = "ready"
                  /\ ret' = Returned("init", "Ok", 0, 0)
                  /\ \E mdts \in BufferMdts(admin_buffer) :
                        data' = [data EXCEPT
                                   !.max_transfer_size = Pow2(mdts) * data.min_pagesize]
    /\ UNCHANGED <<regs, mmio, admin_sq, admin_buffer, next_id, actrl, heap, client>>
    /\ UNCHANGED pairvars
    /\ UNCHANGED idlevars

\* A facade call returns: its report, and the caller is free to call again.
Return(op, res, code, value) ==
    /\ ret' = Returned(op, res, code, value)
    /\ pc' = "ready"
    /\ client' = [client EXCEPT !.calls = client.calls + 1]

\* A faulty validation, which refuses a ring of max_queue_entries slots.
validate_len_below_max(len, max) ==
    IF len < 2 THEN "QueueSizeTooSmall"
    ELSE IF len >= max THEN "QueueSizeExceedsMqes"
    ELSE "Ok"

\* create_io_queue_pair, lines 331-336: the two checks of len.
validate_len(len, max) ==
    IF len < 2 THEN "QueueSizeTooSmall"
    ELSE IF len > max THEN "QueueSizeExceedsMqes"
    ELSE "Ok"

\* create_io_queue_pair, lines 331-346 (exec_admin 293-295): validate len,
\* take a queue id, allocate the completion ring, post Create-CQ.
CreateIoQueuePair(ns, len) ==
    /\ pc = "ready"
    /\ qp.id = 0
    /\ IF validate_len(len, data.max_queue_entries) # "Ok"
       THEN /\ Return("create_io_queue_pair", validate_len(len, data.max_queue_entries), 0, 0)
            /\ call' = [call EXCEPT !.op = "create_io_queue_pair", !.len = len]
            /\ UNCHANGED <<admin_sq, dbell, heap, next_id>>
       ELSE LET queue_id == next_id
                ring == DmaAllocate(heap)
                cmd == create_completion_queue(admin_sq.tail % U16, queue_id,
                                               ring.dma.phys_addr, (len - 1) % U16)
                sub == exec_admin_submit(admin_sq, dbell, cmd)
            IN /\ sub.ok
               /\ next_id' = (next_id + 1) % U16
               /\ heap' = ring.heap
               /\ admin_sq' = sub.sq
               /\ dbell' = sub.db
               /\ \E cslots \in UninitCompSlots(len) :
                     call' = [call EXCEPT !.op = "create_io_queue_pair", !.len = len,
                                          !.queue_id = queue_id, !.namespace = ns,
                                          !.cslots = cslots,
                                          !.comp_ring = ring.dma.addr]
               /\ pc' = "create_cq"
               /\ UNCHANGED <<ret, client>>
    /\ UNCHANGED <<regs, mmio, data, admin_cq, admin_buffer, actrl>>
    /\ UNCHANGED pairvars
    /\ UNCHANGED idlevars

\* create_io_queue_pair, exec_admin 297-306 and lines 348-355: consume the
\* completion of Create-CQ; on Ok allocate the submission ring and post
\* Create-SQ.
CreateCqDone ==
    /\ pc = "create_cq"
    /\ LET done == exec_admin_complete(admin_cq, dbell)
           ring == DmaAllocate(heap)
           cmd == create_submission_queue(admin_sq.tail % U16, call.queue_id,
                                          ring.dma.phys_addr, (call.len - 1) % U16,
                                          call.queue_id)
           sub == exec_admin_submit(admin_sq, done.db, cmd)
       IN /\ done.some
          /\ admin_cq' = done.cq
          /\ IF done.res # "Ok"
             THEN /\ Return("create_io_queue_pair", done.res, done.status, 0)
                  /\ call' = Consumed(call, done)
                  /\ dbell' = done.db
                  /\ UNCHANGED <<admin_sq, heap>>
             ELSE /\ sub.ok
                  /\ call' = [Consumed(call, done) EXCEPT !.sub_ring = ring.dma.addr]
                  /\ heap' = ring.heap
                  /\ admin_sq' = sub.sq
                  /\ dbell' = sub.db
                  /\ pc' = "create_sq"
                  /\ UNCHANGED <<ret, client>>
    /\ UNCHANGED <<regs, mmio, data, admin_buffer, next_id, actrl>>
    /\ UNCHANGED pairvars
    /\ UNCHANGED idlevars

\* create_io_queue_pair, exec_admin 297-306 and lines 357-365: consume the
\* completion of Create-SQ; on Ok build the IoQueuePair.
CreateSqDone ==
    /\ pc = "create_sq"
    /\ LET done == exec_admin_complete(admin_cq, dbell)
       IN /\ done.some
          /\ admin_cq' = done.cq
          /\ dbell' = done.db
          /\ call' = Consumed(call, done)
          /\ IF done.res # "Ok"
             THEN /\ Return("create_io_queue_pair", done.res, done.status, 0)
                  /\ UNCHANGED pairvars
             ELSE /\ Return("create_io_queue_pair", "Ok", 0, call.queue_id)
                  /\ qp' = [id |-> call.queue_id,
                            max_transfer_size |-> data.max_transfer_size,
                            stride |-> data.stride,
                            sub_ring |-> call.sub_ring, comp_ring |-> call.comp_ring]
                  /\ namespace' = call.namespace
                  /\ sub_queue' = SubQueueNew(call.len)
                  /\ comp_queue' = CompQueueNew(call.cslots)
                  /\ list_pool' = <<>>
                  /\ submitted' = <<>>
    /\ UNCHANGED <<regs, mmio, data, admin_sq, admin_buffer, next_id, actrl, heap>>
    /\ UNCHANGED idlevars

\* The caller's pair is consumed by delete_io_queue_pair.
PairGone ==
    /\ qp' = [id |-> 0, max_transfer_size |-> 0, stride |-> 0,
              sub_ring |-> 0, comp_ring |-> 0]
    /\ namespace' = [id |-> 0, block_size |-> 512]
    /\ sub_queue' = SubQueueNew(2)
    /\ comp_queue' = CompQueueNew(ZeroedCompSlots(2))
    /\ list_pool' = <<>>
    /\ submitted' = <<>>

\* delete_io_queue_pair, lines 374-376 (exec_admin 293-295): post Delete-SQ.
DeleteIoQueuePair ==
    /\ pc = "ready"
    /\ qp.id # 0
    /\ LET cmd_id == admin_sq.tail % U16
           sub == exec_admin_submit(admin_sq, dbell,
                                    delete_submission_queue(cmd_id, qp.id))
       IN /\ sub.ok
          /\ admin_sq' = sub.sq
          /\ dbell' = sub.db
          /\ call' = [call EXCEPT !.op = "delete_io_queue_pair", !.cmd_id = cmd_id,
                                  !.queue_id = qp.id]
    /\ pc' = "delete_sq"
    /\ UNCHANGED <<regs, mmio, data, admin_cq, admin_buffer, next_id, ret, actrl,
                   heap, client>>
    /\ UNCHANGED pairvars
    /\ UNCHANGED idlevars

\* delete_io_queue_pair, exec_admin 297-306 and lines 377-378: consume the
\* completion of Delete-SQ; on Ok post Delete-CQ under the same cmd_id.
DeleteSqDone ==
    /\ pc = "delete_sq"
    /\ LET done == exec_admin_complete(admin_cq, dbell)
           sub == exec_admin_submit(admin_sq, done.db,
                                    delete_completion_queue(call.cmd_id, call.queue_id))
       IN /\ done.some
          /\ admin_cq' = done.cq
          /\ call' = Consumed(call, done)
          /\ IF done.res # "Ok"
             THEN /\ Return("delete_io_queue_pair", done.res, done.status, 0)
                  /\ dbell' = done.db
                  /\ PairGone
                  /\ UNCHANGED admin_sq
             ELSE /\ sub.ok
                  /\ admin_sq' = sub.sq
                  /\ dbell' = sub.db
                  /\ pc' = "delete_cq"
                  /\ UNCHANGED <<ret, client>>
                  /\ UNCHANGED pairvars
    /\ UNCHANGED <<regs, mmio, data, admin_buffer, next_id, actrl, heap>>
    /\ UNCHANGED idlevars

\* delete_io_queue_pair, exec_admin 297-306 and lines 378-379: consume the
\* completion of Delete-CQ and return.
DeleteCqDone ==
    /\ pc = "delete_cq"
    /\ LET done == exec_admin_complete(admin_cq, dbell)
       IN /\ done.some
          /\ admin_cq' = done.cq
          /\ dbell' = done.db
          /\ call' = Consumed(call, done)
          /\ Return("delete_io_queue_pair", done.res, done.status, 0)
          /\ PairGone
    /\ UNCHANGED <<regs, mmio, data, admin_sq, admin_buffer, next_id, actrl, heap>>
    /\ UNCHANGED idlevars

\* Namespace of identify_namespaces' closure: block_size = 1 << flba_data.
NamespaceOf(id, nsdata) ==
    [id |-> id, block_size |-> Pow2(nsdata.lbads), block_count |-> nsdata.capacity]

\* identify_namespaces, lines 243-247 (exec_admin 293-295): post
\* Identify(NamespaceList(base)).
IdentifyNamespaces(base) ==
    /\ pc = "ready"
    /\ LET cmd == identify(admin_sq.tail % U16, DeviceNew.admin_buffer.phys_addr,
                           <<"NamespaceList", base>>)
           sub == exec_admin_submit(admin_sq, dbell, cmd)
       IN /\ sub.ok
          /\ admin_sq' = sub.sq
          /\ dbell' = sub.db
    /\ call' = [call EXCEPT !.op = "identify_namespaces", !.ids = <<>>, !.found = <<>>,
                            !.base = base]
    /\ pc' = "namespace_list"
    /\ UNCHANGED <<regs, mmio, data, admin_cq, admin_buffer, next_id, ret, actrl,
                   heap, client>>
    /\ UNCHANGED pairvars
    /\ UNCHANGED idlevars

\* identify_namespaces, exec_admin 297-306 and lines 249-261: consume the
\* completion of the list, collect the nonzero ids and post
\* Identify(Namespace) for the first of them.
NamespaceListDone ==
    /\ pc = "namespace_list"
    /\ LET done == exec_admin_complete(admin_cq, dbell)
       IN /\ done.some
          /\ admin_cq' = done.cq
          /\ IF done.res # "Ok"
             THEN /\ Return("identify_namespaces", done.res, done.status, <<>>)
                  /\ call' = Consumed(call, done)
                  /\ dbell' = done.db
                  /\ UNCHANGED admin_sq
             ELSE \E ids \in BufferIds(admin_buffer) :
                    IF ids = <<>>
                    THEN /\ Return("identify_namespaces", "Ok", 0, <<>>)
                         /\ call' = Consumed(call, done)
                         /\ dbell' = done.db
                         /\ UNCHANGED admin_sq
                    ELSE LET cmd == identify(admin_sq.tail % U16,
                                             DeviceNew.admin_buffer.phys_addr,
                                             <<"Namespace", ids[1]>>)
                             sub == exec_admin_submit(admin_sq, done.db, cmd)
                         IN /\ sub.ok
                            /\ admin_sq' = sub.sq
                            /\ dbell' = sub.db
                            /\ call' = [Consumed(call, done) EXCEPT !.ids = ids]
                            /\ pc' = "namespace"
                            /\ UNCHANGED <<ret, client>>
    /\ UNCHANGED <<regs, mmio, data, admin_buffer, next_id, actrl, heap>>
    /\ UNCHANGED pairvars
    /\ UNCHANGED idlevars

\* identify_namespaces, exec_admin 297-306 and lines 263-274: consume the
\* completion of Identify(Namespace), build the Namespace, go on with the
\* next id or return the collection.
NamespaceDone ==
    /\ pc = "namespace"
    /\ LET done == exec_admin_complete(admin_cq, dbell)
           k == Len(call.found) + 1
       IN /\ done.some
          /\ admin_cq' = done.cq
          /\ IF done.res # "Ok"
             THEN /\ Return("identify_namespaces", done.res, done.status, <<>>)
                  /\ call' = Consumed(call, done)
                  /\ dbell' = done.db
                  /\ UNCHANGED admin_sq
             ELSE \E nsdata \in BufferNamespaceData(admin_buffer) :
                    LET found == Append(call.found, NamespaceOf(call.ids[k], nsdata))
                    IN IF k = Len(call.ids)
                       THEN /\ Return("identify_namespaces", "Ok", 0, found)
                            /\ call' = [Consumed(call, done) EXCEPT !.found = found]
                            /\ dbell' = done.db
                            /\ UNCHANGED admin_sq
                       ELSE LET cmd == identify(admin_sq.tail % U16,
                                                DeviceNew.admin_buffer.phys_addr,
                                                <<"Namespace", call.ids[k + 1]>>)
                                sub == exec_admin_submit(admin_sq, done.db, cmd)
                            IN /\ sub.ok
                               /\ admin_sq' = sub.sq
                               /\ dbell' = sub.db
                               /\ call' = [Consumed(call, done) EXCEPT !.found = found]
                               /\ pc' = "namespace"
                               /\ UNCHANGED <<ret, client>>
    /\ UNCHANGED <<regs, mmio, data, admin_buffer, next_id, actrl, heap>>
    /\ UNCHANGED pairvars
    /\ UNCHANGED idlevars

----------------------------------------------------------------------------
(* The NVMe controller's side of the registers and of the admin queue pair. *)

\* Status fields (bits 1..15 of the status word) the controller reports for
\* an admin command: success, a generic error (SCT 0, SC 1) and a
\* command-specific error whose status code is 0 (SCT 1, SC 0).
AdminStatusFields == {0, 1, 256}

\* The namespaces of the controller and the MDTS byte it reports.
CtrlNamespaces == <<[id |-> 1, lbads |-> 9, capacity |-> 2048],
                    [id |-> 2, lbads |-> 12, capacity |-> 256]>>
ControllerMdts == 2

CtrlReset == [sq_head |-> 0, cq_tail |-> 0, phase |-> TRUE, cqs |-> {}, sqs |-> {}]

QueueIdOf(cmd) == cmd.cmd_10 % U16
CompQueueIdOf(cmd) == cmd.cmd_11 \div U16

\* The commands the controller can complete successfully in its state.
CtrlAccepts(cmd) ==
    IF cmd.opcode = OPCODE_IDENTIFY
    THEN \/ cmd.cmd_10 \in {1, 2}
         \/ cmd.cmd_10 = 0 /\ \E n \in 1..Len(CtrlNamespaces) : CtrlNamespaces[n].id = cmd.ns_id
    ELSE IF cmd.opcode = OPCODE_COMP_QUEUE_CREATE
    THEN QueueIdOf(cmd) # 0 /\ QueueIdOf(cmd) \notin actrl.cqs
    ELSE IF cmd.opcode = OPCODE_SUB_QUEUE_CREATE
    THEN /\ QueueIdOf(cmd) # 0
         /\ \A s \in actrl.sqs : s[1] # QueueIdOf(cmd)
         /\ CompQueueIdOf(cmd) \in actrl.cqs
    ELSE IF cmd.opcode = OPCODE_SUB_QUEUE_DELETE
    THEN \E s \in actrl.sqs : s[1] = QueueIdOf(cmd)
    ELSE IF cmd.opcode = OPCODE_COMP_QUEUE_DELETE
    THEN QueueIdOf(cmd) \in actrl.cqs /\ \A s \in actrl.sqs : s[2] # QueueIdOf(cmd)
    ELSE FALSE

\* The Identify response the controller stores in the data buffer.
IdentifyResponse(cmd) ==
    IF cmd.cmd_10 = 1 THEN [kind |-> "controller", mdts |-> ControllerMdts]
    ELSE IF cmd.cmd_10 = 2
    THEN LET Above(n) == n.id > cmd.ns_id
             listed == SelectSeq(CtrlNamespaces, Above)
         IN [kind |-> "nslist", ids |-> [i \in 1..Len(listed) |-> listed[i].id]]
    ELSE LET n == CHOOSE i \in 1..Len(CtrlNamespaces) : CtrlNamespaces[i].id = cmd.ns_id
         IN [kind |-> "ns", id |-> cmd.ns_id, lbads |-> CtrlNamespaces[n].lbads,
             capacity |-> CtrlNamespaces[n].capacity]

\* The queues registered with the controller after a successful command.
CtrlQueuesAfter(cmd) ==
    IF cmd.opcode = OPCODE_COMP_QUEUE_CREATE
    THEN [actrl EXCEPT !.cqs = actrl.cqs \cup {QueueIdOf(cmd)}]
    ELSE IF cmd.opcode = OPCODE_SUB_QUEUE_CREATE
    THEN [actrl EXCEPT !.sqs = actrl.sqs \cup {<<QueueIdOf(cmd), CompQueueIdOf(cmd)>>}]
    ELSE IF cmd.opcode = OPCODE_SUB_QUEUE_DELETE
    THEN [actrl EXCEPT !.sqs = {s \in actrl.sqs : s[1] # QueueIdOf(cmd)}]
    ELSE IF cmd.opcode = OPCODE_COMP_QUEUE_DELETE
    THEN [actrl EXCEPT !.cqs = actrl.cqs \ {QueueIdOf(cmd)}]
    ELSE actrl

\* CSTS.RDY follows CC.EN; the controller forgets its queues on the way.
CtrlReady ==
    /\ regs.csts.rdy # regs.cc.en
    /\ regs' = [regs EXCEPT !.csts.rdy = regs.cc.en]
    /\ actrl' = CtrlReset
    /\ UNCHANGED <<pc, mmio, data, admin_sq, admin_cq, admin_buffer, next_id, call, ret,
                   dbell, heap, client>>
    /\ UNCHANGED pairvars
    /\ UNCHANGED idlevars

\* The controller takes the next command of the admin submission ring,
\* executes it and posts its completion, with the phase tag of its current
\* pass, in the next slot of the admin completion ring.
CtrlAdmin(sf) ==
    /\ regs.csts.rdy = 1
    /\ regs.cc.en = 1
    /\ regs.asq = DeviceNew.admin_sq.phys_addr
    /\ regs.acq = DeviceNew.admin_cq.phys_addr
    /\ actrl.sq_head # Get(dbell, DoorbellAddr(SubTail(0), regs.cap.dstrd))
    /\ (actrl.cq_tail + 1) % (regs.aqa.acqs + 1)
          # Get(dbell, DoorbellAddr(CompHead(0), regs.cap.dstrd))
    /\ LET cmd == admin_sq.slots[actrl.sq_head]
           h == (actrl.sq_head + 1) % (regs.aqa.asqs + 1)
           t == (actrl.cq_tail + 1) % (regs.aqa.acqs + 1)
           entry == Completion(h, sf * 2 + (IF actrl.phase THEN 1 ELSE 0))
           after == IF sf = 0 THEN CtrlQueuesAfter(cmd) ELSE actrl
       IN /\ sf = 0 => CtrlAccepts(cmd)
          /\ admin_cq' = [admin_cq EXCEPT !.slots[actrl.cq_tail] = entry]
          /\ actrl' = [after EXCEPT !.sq_head = h, !.cq_tail = t,
                                    !.phase = IF t = 0 THEN ~actrl.phase ELSE actrl.phase]
          /\ admin_buffer' = IF sf = 0 /\ cmd.opcode = OPCODE_IDENTIFY
                             THEN IdentifyResponse(cmd) ELSE admin_buffer
    /\ UNCHANGED <<pc, regs, mmio, data, admin_sq, next_id, call, ret, dbell, heap, client>>
    /\ UNCHANGED pairvars
    /\ UNCHANGED idlevars

----------------------------------------------------------------------------
(* The facade under arbitrary calls, from construction on: SpecAdmin.       *)

\* The register contents init can find: a controller left enabled or
\* disabled, with or without entry sizes and arbitration fields set.
CapValues == {Cap(1, 0, 0), Cap(2, 1, 0), Cap(32770, 0, 1)}
CcValues == {Cc(0, 0, 0, 0, 0, 0), Cc(1, 0, 1, 6, 4, 0)}

ModelNamespaces == {[id |-> 1, block_size |-> 512]}

NoClient == [pc |-> "free", calls |-> 0, bytes |-> 0, lba |-> Lba(0, 0), src |-> 0,
             dst |-> 0, ok |-> TRUE]

InitAdmin ==
    /\ xlate = ScatterMap
    /\ heap = DeviceNew.heap
    /\ listmem = EmptyMap
    /\ mem = EmptyMap
    /\ disk = EmptyMap
    /\ NoPair
    /\ dbell = EmptyMap
    /\ ioctrl = [sq_head |-> 0, cq_tail |-> 0, phase |-> TRUE, pending |-> <<>>]
    /\ last = [op |-> "none", res |-> "Ok", code |-> 0,
               db |-> <<>>, n |-> 0, entry |-> ZeroCompletion]
    /\ retry = NoRetry
    /\ client = NoClient
    /\ pc = "init"
    /\ regs \in [cap : CapValues, cc : CcValues, csts : [rdy : {0, 1}],
                 aqa : {[asqs |-> 0, acqs |-> 0]}, asq : {0}, acq : {0}]
    /\ mmio = <<>>
    /\ data = [max_transfer_size |-> 0, min_pagesize |-> 0, max_queue_entries |-> 0,
               stride |-> 0]
    /\ admin_sq = SubQueueNew(ADMIN_QUEUE_SIZE)
    /\ admin_cq \in {CompQueueNew(s) : s \in UninitCompSlots(ADMIN_QUEUE_SIZE)}
    /\ admin_buffer = [kind |-> "uninit"]
    /\ next_id = 1
    /\ call = NoCall
    /\ ret = Returned("none", "Ok", 0, 0)
    /\ actrl = CtrlReset

FacadeCreate ==
    /\ client.calls < MaxCalls
    /\ \E ns \in ModelNamespaces : \E len \in 0..(MaxQueueLen + 1) :
          CreateIoQueuePair(ns, len)

FacadeDelete == client.calls < MaxCalls /\ DeleteIoQueuePair

FacadeIdentify == client.calls < MaxCalls /\ \E base \in {0, 1} : IdentifyNamespaces(base)

CtrlAdminPost == \E sf \in AdminStatusFields : CtrlAdmin(sf)

NextAdmin ==
    \/ InitDisable \/ InitProgram \/ InitIdentify \/ InitFinish
    \/ FacadeIdentify \/ NamespaceListDone \/ NamespaceDone
    \/ FacadeCreate \/ CreateCqDone \/ CreateSqDone
    \/ FacadeDelete \/ DeleteSqDone \/ DeleteCqDone
    \/ CtrlReady \/ CtrlAdminPost

SpecAdmin == InitAdmin /\ [][NextAdmin]_vars

----------------------------------------------------------------------------
(* The facade is not part of the I/O specifications: it stays as it is.     *)

DevQuiet ==
    /\ pc = "none"
    /\ regs = [cap |-> Cap(0, 0, 0), cc |-> Cc(0, 0, 0, 0, 0, 0), csts |-> [rdy |-> 0],
               aqa |-> [asqs |-> 0, acqs |-> 0], asq |-> 0, acq |-> 0]
    /\ mmio = <<>>
    /\ data = [max_transfer_size |-> 0, min_pagesize |-> 0, max_queue_entries |-> 0,
               stride |-> 0]
    /\ admin_sq = SubQueueNew(2)
    /\ admin_cq = CompQueueNew(ZeroedCompSlots(2))
    /\ admin_buffer = [kind |-> "uninit"]
    /\ next_id = 1
    /\ call = NoCall
    /\ ret = Returned("none", "Ok", 0, 0)
    /\ actrl = CtrlReset

----------------------------------------------------------------------------
(* The I/O queue pair under arbitrary calls: SpecIo (the completion ring    *)
(* as the allocator hands it out) and SpecIoZeroed (a zeroed ring).         *)

\* max_transfer_size of a controller with MDTS = 2 and 4096-byte pages.
ModelMdtsBytes == 4 * PAGE

BlockSizes == {512, 4096}

\* The state IoQueuePair::new leaves, for a ring of `size` slots.
IoPairNew(size, cslots, maps, sizes) ==
    /\ xlate \in maps
    /\ heap = [next |-> HeapBase, live |-> {}, freed |-> <<>>]
    /\ listmem = EmptyMap
    /\ qp = [id |-> 1, max_transfer_size |-> ModelMdtsBytes, stride |-> 0,
             sub_ring |-> 0, comp_ring |-> 0]
    /\ namespace \in [id : {1}, block_size : sizes]
    /\ sub_queue = SubQueueNew(size)
    /\ comp_queue = CompQueueNew(cslots)
    /\ list_pool = <<>>
    /\ submitted = <<>>
    /\ dbell = EmptyMap
    /\ ioctrl = [sq_head |-> 0, cq_tail |-> 0, phase |-> TRUE, pending |-> <<>>]
    /\ last = [op |-> "none", res |-> "Ok", code |-> 0,
               db |-> <<>>, n |-> 0, entry |-> ZeroCompletion]
    /\ retry = NoRetry

\* The requests a caller makes: one of each outcome of the validation and
\* of each PRP form.
Requests ==
    LET bs == namespace.block_size
        R(b, l, a, w) == [bytes |-> b, lba |-> l, address |-> a, write |-> w]
    IN {R(bs, Lba(0, 0), BufA, FALSE),
        R(3 * PAGE, Lba(8, 1), BufA, TRUE),
        R(2 * PAGE, Lba(0, 0), BufA + 8, FALSE),
        R(bs, Lba(0, 0), BufA + 2, TRUE),
        R(qp.max_transfer_size + 1, Lba(0, 0), BufA, FALSE),
        R(bs + 100, Lba(0, 0), BufA, TRUE)}

InitIo ==
    /\ \E size \in 2..MaxQueueLen : \E cslots \in UninitCompSlots(size) :
          IoPairNew(size, cslots, {LinearMap}, {512})
    /\ mem = EmptyMap
    /\ disk = EmptyMap
    /\ client = NoClient
    /\ DevQuiet

InitIoZeroed ==
    /\ \E size \in 2..MaxQueueLen : IoPairNew(size, ZeroedCompSlots(size), {LinearMap}, {512})
    /\ mem = EmptyMap
    /\ disk = EmptyMap
    /\ client = NoClient
    /\ DevQuiet

Called == client' = [client EXCEPT !.calls = client.calls + 1]

IoRead ==
    /\ client.calls < MaxIoCalls
    /\ \E r \in {q \in Requests : ~q.write} : read(r.address, r.bytes, r.lba)
    /\ Called

IoWrite ==
    /\ client.calls < MaxIoCalls
    /\ \E r \in {q \in Requests : q.write} : write(r.address, r.bytes, r.lba)
    /\ Called

IoFlush ==
    /\ client.calls < MaxIoCalls
    /\ flush
    /\ Called

CtrlIoPost == \E sf \in IoStatusFields : CtrlIoComplete(sf)

NextIo == IoRead \/ IoWrite \/ IoFlush \/ CtrlIoFetch \/ CtrlIoPost

SpecIo == InitIo /\ [][NextIo]_vars

SpecIoZeroed == InitIoZeroed /\ [][NextIo]_vars

----------------------------------------------------------------------------
(* The round trip write; flush; read; flush of one caller, against a        *)
(* controller that completes every command successfully: SpecRoundTrip.     *)

\* The memory cell behind the g-th 512 bytes of the caller's buffer at buf.
BufCell(buf, g) == translate(buf + g * CELL) \div CELL

\* The transfers the caller tries: every PRP form, with and without an
\* offset into the first page, on both block sizes.
RoundTripClients ==
    {c \in [pc : {"write"}, calls : {0}, ok : {TRUE},
            bytes : {512, PAGE, 2 * PAGE, 3 * PAGE, 4 * PAGE},
            lba : {Lba(0, 0), Lba(3, 0)},
            src : {BufA, BufA + CELL},
            dst : {BufB, BufB + CELL}] :
        /\ c.bytes % namespace.block_size = 0
        /\ (c.src % PAGE) = (c.dst % PAGE)
        /\ (c.src % PAGE # 0) => c.bytes = 512}

InitRoundTrip ==
    /\ \E size \in 2..MaxQueueLen :
          IoPairNew(size, ZeroedCompSlots(size), Translations, BlockSizes)
    /\ client \in RoundTripClients
    /\ mem = [cell \in {BufCell(client.src, g) : g \in 0..((client.bytes \div CELL) - 1)} |->
                1 + CHOOSE g \in 0..((client.bytes \div CELL) - 1) :
                        BufCell(client.src, g) = cell]
    /\ disk = EmptyMap
    /\ DevQuiet

Step(from, to) ==
    /\ client.pc = from
    /\ client' = [client EXCEPT !.pc = to, !.calls = client.calls + 1,
                                !.ok = client.ok /\ last'.res = "Ok"]

RtWrite == write(client.src, client.bytes, client.lba) /\ Step("write", "flush_write")
RtFlushWrite == flush /\ Step("flush_write", "read")
RtRead == read(client.dst, client.bytes, client.lba) /\ Step("read", "flush_read")
RtFlushRead == flush /\ Step("flush_read", "done")

CtrlIoOk == CtrlIoComplete(0)

NextRoundTrip ==
    RtWrite \/ RtFlushWrite \/ RtRead \/ RtFlushRead \/ CtrlIoFetch \/ CtrlIoOk

SpecRoundTrip == InitRoundTrip /\ [][NextRoundTrip]_vars

----------------------------------------------------------------------------
(* Claims about the I/O queue pair.                                         *)

\* The doorbells of the pair.
SubTailBell == DoorbellAddr(SubTail(qp.id), qp.stride)
CompHeadBell == DoorbellAddr(CompHead(qp.id), qp.stride)

\* A step of the caller (a call of read, write or flush): the controller's
\* own state is the one thing every controller step changes.
HostStep == ioctrl' = ioctrl

\* The controller has consumed and completed every command submitted, and
\* the host has popped exactly the completions the controller has posted.
AllPosted ==
    /\ ioctrl.pending = <<>>
    /\ ioctrl.sq_head = sub_queue.tail
    /\ ioctrl.cq_tail = comp_queue.head
    /\ ioctrl.phase = comp_queue.phase

\* The list pages held by the results of the in-flight queue.
RECURSIVE PagesOf(_)
PagesOf(results) ==
    IF results = <<>> THEN {}
    ELSE {Head(results).lists[i] : i \in 1..Len(Head(results).lists)}
            \cup PagesOf(Tail(results))

InPool(dma) == \E i \in 1..Len(list_pool) : list_pool[i] = dma

\* C1 (as claimed): when read or write returns QueueFull, a flush followed
\* by the same request never returns QueueFull again, whatever the flush
\* returned.
C1_RetryAfterFlushAccepted == retry.stage # "again"

\* C2 (as claimed): when flush consumes a completion with a nonzero status
\* and returns CommandFailed, the submission ring's head has been set to
\* that completion's sq_head.
C2_HeadFollowsFailedCompletion ==
    (last.op = "flush" /\ last.res = "CommandFailed")
        => sub_queue.head = last.entry.sq_head

\* C3 (as claimed): a flush with commands in flight returns only once the
\* controller has posted a completion for each of them; on return the
\* in-flight queue is empty, every list page of the batch is back in the
\* pool or deallocated, and the complete-head doorbell was stored exactly
\* once, with the new completion head; a flush with nothing in flight
\* returns Ok and touches no ring and no doorbell.
C3_FlushCompletesBatch ==
    [][(HostStep /\ last'.op = "flush") =>
          /\ submitted' = <<>>
          /\ IF submitted = <<>>
             THEN /\ last'.res = "Ok"
                  /\ last'.db = <<>>
                  /\ UNCHANGED <<sub_queue, comp_queue, dbell, list_pool, heap>>
             ELSE /\ AllPosted'
                  /\ last'.db = <<<<CompHeadBell, comp_queue'.head>>>>
                  /\ dbell'[CompHeadBell] = comp_queue'.head
                  /\ \A dma \in PagesOf(submitted) :
                        InPool(dma)' \/ dma.addr \notin heap'.live]_vars

\* C5 (as claimed): after write(B, S, lba); flush(); read(B', S, lba);
\* flush() have all returned Ok, B' holds what B holds.
C5_RoundTrip ==
    (client.pc = "done" /\ client.ok)
        => \A g \in 0..((client.bytes \div CELL) - 1) :
              Get(mem, BufCell(client.dst, g)) = Get(mem, BufCell(client.src, g))

\* C6: a read or write that returns an error leaves the submission ring
\* (head, tail, slots) and the in-flight queue as they were and stores to
\* no doorbell.
C6_ErrorsPostNothing ==
    [][(HostStep /\ last'.op \in {"read", "write"} /\ last'.res # "Ok") =>
          /\ last'.res \in {"IoSizeExceedsMdts", "InvalidBufferSize", "NotAlignedToDword",
                            "NotAlignedToPage", "QueueFull"}
          /\ sub_queue' = sub_queue
          /\ submitted' = submitted
          /\ dbell' = dbell
          /\ last'.db = <<>>]_vars

\* C6's case: a write was refused with QueueFull while commands were in
\* flight.
C6_Witness ==
    /\ last.op = "write"
    /\ last.res = "QueueFull"
    /\ submitted # <<>>
    /\ sub_queue.tail # 0

----------------------------------------------------------------------------
(* Claims about the facade.                                                 *)

\* The command a step posts to the admin submission ring, if it posts one.
AdminPosts == admin_sq'.tail # admin_sq.tail
AdminPosted == admin_sq'.slots[admin_sq.tail]

\* The status exec_admin reads off the completion it consumed last.
ConsumedStatus(c) == (c.entry.status \div 2) % 256

\* C4 (as claimed): after every admin command the facade has executed, the
\* admin submission ring's head equals the sq_head of that command's
\* completion; after a pair was created and deleted the admin ring has
\* head = tail.
C4_AdminHeadFollowsCompletion ==
    /\ call.execs > 0 => admin_sq.head = call.entry.sq_head
    /\ (pc = "ready" /\ ret.op = "delete_io_queue_pair" /\ ret.res = "Ok")
          => admin_sq.head = admin_sq.tail

\* C7: in the order of init's register accesses, ASQ, ACQ, AQA and the
\* entry sizes of CC are written only after CC.EN was cleared and CSTS.RDY
\* was read as 0; the write of the entry sizes leaves EN clear; EN is set
\* only after all of those writes; and the admin submit doorbell is stored
\* only after EN was set and CSTS.RDY was read as 1.
C7_InitOrder ==
    \A i \in 1..Len(mmio) :
        LET e == mmio[i]
            Before(P(_)) == \E j \in 1..(i - 1) : P(mmio[j])
            BeforeInOrder(P(_), Q(_)) ==
                \E j \in 1..(i - 1) : \E k \in (j + 1)..(i - 1) : P(mmio[j]) /\ Q(mmio[k])
            ClearsEn(x) == x.op = "w" /\ x.reg = "CC" /\ x.val.en = 0
            SetsEn(x) == x.op = "w" /\ x.reg = "CC" /\ x.val.en = 1
            SeesNotReady(x) == x.op = "r" /\ x.reg = "CSTS" /\ x.val.rdy = 0
            SeesReady(x) == x.op = "r" /\ x.reg = "CSTS" /\ x.val.rdy = 1
            WritesAsq(x) == x.op = "w" /\ x.reg = "ASQ"
            WritesAcq(x) == x.op = "w" /\ x.reg = "ACQ"
            WritesAqa(x) == x.op = "w" /\ x.reg = "AQA"
            WritesSizes(x) == x.op = "w" /\ x.reg = "CC" /\ x.step = "configure"
            RingsSubmit(x) == /\ x.op = "w" /\ x.reg = "doorbell"
                              /\ x.val[1] = DoorbellAddr(SubTail(0), data.stride)
        IN /\ (WritesAsq(e) \/ WritesAcq(e) \/ WritesAqa(e) \/ WritesSizes(e))
                => BeforeInOrder(ClearsEn, SeesNotReady)
           /\ WritesSizes(e)
                => e.val.en = 0 /\ e.val.iosqes = IOSQES /\ e.val.iocqes = IOCQES
           /\ SetsEn(e)
                => Before(WritesAsq) /\ Before(WritesAcq) /\ Before(WritesAqa)
                   /\ Before(WritesSizes)
           /\ RingsSubmit(e) => BeforeInOrder(SetsEn, SeesReady)

\* C7's case: init has run to its end on a controller it found enabled.
C7_Witness ==
    /\ pc = "ready"
    /\ Len(mmio) = 13
    /\ mmio[2].val.en = 1
    /\ mmio[13].step = "identify"

CreateStarts == pc = "ready" /\ (pc' = "create_cq" \/ client'.calls # client.calls)
                  /\ call'.op = "create_io_queue_pair" /\ pc' \in {"ready", "create_cq"}

\* C9: create_io_queue_pair with len < 2 returns QueueSizeTooSmall and with
\* len > max_queue_entries returns QueueSizeExceedsMqes, in both cases with
\* the admin rings, the doorbells, the allocator and the id counter as they
\* were; every len from 2 to max_queue_entries goes on to Create-CQ.
C9_LenValidation ==
    [][CreateStarts =>
          LET len == call'.len
              Untouched == UNCHANGED <<admin_sq, admin_cq, dbell, heap, next_id>>
          IN /\ len < 2 =>
                   pc' = "ready" /\ ret'.res = "QueueSizeTooSmall" /\ Untouched
             /\ (len >= 2 /\ len > data.max_queue_entries) =>
                   pc' = "ready" /\ ret'.res = "QueueSizeExceedsMqes" /\ Untouched
             /\ (len >= 2 /\ len <= data.max_queue_entries) =>
                   pc' = "create_cq" /\ AdminPosts]_vars

\* C9's case: a ring of max_queue_entries slots was accepted after a larger
\* one had been refused.
C9_Witness ==
    /\ pc = "create_cq"
    /\ call.len = data.max_queue_entries
    /\ ret.op = "create_io_queue_pair"
    /\ ret.res = "QueueSizeExceedsMqes"

\* C10 (as claimed): when a call of create_io_queue_pair returns an error
\* at its Create-SQ, the step has posted a Delete-CQ for the call's queue
\* id.
C10_FailedCreateDeletesCq ==
    [][(pc = "create_sq" /\ pc' = "ready" /\ ret'.res # "Ok") =>
          /\ AdminPosts
          /\ AdminPosted.opcode = OPCODE_COMP_QUEUE_DELETE
          /\ QueueIdOf(AdminPosted) = call.queue_id]_vars

\* The order of delete_io_queue_pair as the driver sees it: a Delete-SQ is
\* posted only at the start of a call, for the id of the caller's pair; a
\* Delete-CQ is posted only by the step that consumed a completion for that
\* Delete-SQ and read its status as Ok, directly after it in the ring and
\* for the same id.
DeleteOrder ==
    /\ (AdminPosts /\ AdminPosted.opcode = OPCODE_SUB_QUEUE_DELETE) =>
          /\ pc = "ready" /\ pc' = "delete_sq"
          /\ qp.id # 0
          /\ QueueIdOf(AdminPosted) = qp.id
    /\ (AdminPosts /\ AdminPosted.opcode = OPCODE_COMP_QUEUE_DELETE) =>
          /\ pc = "delete_sq" /\ pc' = "delete_cq"
          /\ call'.execs = call.execs + 1
          /\ ConsumedStatus(call') = 0
          /\ admin_sq.tail > 0
          /\ admin_sq.slots[admin_sq.tail - 1] =
                delete_submission_queue(call.cmd_id, qp.id)
          /\ QueueIdOf(AdminPosted) = qp.id

\* C11 (as claimed): Delete-SQ first, Delete-CQ for the same id only after
\* the Delete-SQ has completed, and no Delete-CQ is posted for a queue whose
\* submission queue the controller still has registered.
C11_DeleteCqAfterSqGone ==
    [][/\ DeleteOrder
       /\ (AdminPosts /\ AdminPosted.opcode = OPCODE_COMP_QUEUE_DELETE) =>
             \A s \in actrl.sqs : s[1] # QueueIdOf(AdminPosted)]_vars

\* The number of times the allocator was asked to deallocate addr.
Deallocations(addr) == Cardinality({i \in 1..Len(heap.freed) : heap.freed[i] = addr})

\* C12 (as claimed): when delete_io_queue_pair returns (here: returns Ok),
\* the DMA regions of the pair's two rings and every list page of its pool
\* have been deallocated, each exactly once.
C12_DeleteFreesPair ==
    [][(pc \in {"delete_sq", "delete_cq"} /\ pc' = "ready"
            /\ ret'.op = "delete_io_queue_pair" /\ ret'.res = "Ok") =>
          \A addr \in {qp.sub_ring, qp.comp_ring}
                        \cup {list_pool[i].addr : i \in 1..Len(list_pool)} :
             /\ addr \notin heap'.live
             /\ Deallocations(addr)' = 1]_vars

----------------------------------------------------------------------------
(* IoQueueId::new under concurrent callers: SpecIds.  NEXT_ID is a static   *)
(* AtomicU16, so a call is one atomic fetch_add and the calls of all        *)
(* threads form one sequence.  The process has made client.calls calls so   *)
(* far; ret holds the id the last of them returned and client.pc the        *)
(* thread that made it.                                                     *)

Threads == {"t1", "t2"}

\* NEXT_ID.fetch_add(1, Relaxed) on a u16: the value returned and the value
\* left in the counter.
fetch_add(counter) == [id |-> counter, next |-> (counter + 1) % U16]

\* The process at its start (no id issued yet) or after it has issued
\* n - 1 ids without reaching 2^16: the counter holds n and the last id
\* returned was n - 1.
InitIds ==
    /\ xlate = LinearMap
    /\ heap = FreshHeap
    /\ listmem = EmptyMap
    /\ mem = EmptyMap
    /\ disk = EmptyMap
    /\ NoPair
    /\ dbell = EmptyMap
    /\ ioctrl = [sq_head |-> 0, cq_tail |-> 0, phase |-> TRUE, pending |-> <<>>]
    /\ last = [op |-> "none", res |-> "Ok", code |-> 0,
               db |-> <<>>, n |-> 0, entry |-> ZeroCompletion]
    /\ retry = NoRetry
    /\ pc = "none"
    /\ regs = [cap |-> Cap(0, 0, 0), cc |-> Cc(0, 0, 0, 0, 0, 0), csts |-> [rdy |-> 0],
               aqa |-> [asqs |-> 0, acqs |-> 0], asq |-> 0, acq |-> 0]
    /\ mmio = <<>>
    /\ data = [max_transfer_size |-> 0, min_pagesize |-> 0, max_queue_entries |-> 0,
               stride |-> 0]
    /\ admin_sq = SubQueueNew(2)
    /\ admin_cq = CompQueueNew(ZeroedCompSlots(2))
    /\ admin_buffer = [kind |-> "uninit"]
    /\ call = NoCall
    /\ actrl = CtrlReset
    /\ next_id \in {1} \cup ((U16 - MaxIdsLeft)..(U16 - 1))
    /\ \E t \in Threads :
          client = [NoClient EXCEPT !.pc = IF next_id = 1 THEN "free" ELSE t,
                                    !.calls = next_id - 1]
    /\ ret = IF next_id = 1 THEN Returned("none", "Ok", 0, 0)
             ELSE Returned("IoQueueId::new", "Ok", 0, next_id - 1)

\* IoQueueId::new called by thread t.
IoQueueIdNew(t) ==
    /\ client.calls < U16 + MaxNewIds
    /\ next_id' = fetch_add(next_id).next
    /\ ret' = Returned("IoQueueId::new", "Ok", 0, fetch_add(next_id).id)
    /\ client' = [client EXCEPT !.pc = t, !.calls = client.calls + 1]
    /\ UNCHANGED <<pc, regs, mmio, data, admin_sq, admin_cq, admin_buffer, call, actrl,
                   dbell, heap>>
    /\ UNCHANGED pairvars
    /\ UNCHANGED idlevars

NextIds == \E t \in Threads : IoQueueIdNew(t)

SpecIds == InitIds /\ [][NextIds]_vars

\* C13 (as claimed): every id IoQueueId::new returns is nonzero and greater
\* than the id returned by the call before it (hence than every id returned
\* before, and different from each of them); the first id is 1.
C13_IdsIncrease ==
    [][(client'.calls = client.calls + 1 /\ ret'.op = "IoQueueId::new") =>
          /\ ret'.value # 0
          /\ client.calls = 0 => ret'.value = 1
          /\ client.calls > 0 => ret'.value > ret.value]_vars

----------------------------------------------------------------------------
(* Claims about the decoding of the completion status.                      *)

\* Bits 1..15 of a completion's status word.
StatusBits(entry) == entry.status \div 2

\* C14 (as claimed): an admin command whose consumed completion has a
\* nonzero bit among bits 1..15 of its status word makes the facade call
\* return CommandFailed, and so does a flush; with all of those bits zero
\* neither reports CommandFailed.
C14_AnyStatusBitFails ==
    [][/\ call'.execs = call.execs + 1 =>
             (StatusBits(call'.entry) # 0
                <=> (pc' \in {"ready", "failed"} /\ ret'.res = "CommandFailed"))
       /\ (HostStep /\ last'.op = "flush" /\ last'.n > 0) =>
             (StatusBits(last'.entry) # 0 <=> last'.res = "CommandFailed")]_vars

----------------------------------------------------------------------------
(* Claims about namespace discovery.                                        *)

\* What the controller's Identify responses say about the namespaces above
\* base: one Namespace per id of the list response, in list order, built
\* from that namespace's own Identify(Namespace) response.
NamespacesAbove(base) ==
    LET Above(n) == n.id > base
        listed == SelectSeq(CtrlNamespaces, Above)
    IN [i \in 1..Len(listed) |->
          NamespaceOf(listed[i].id,
                      [lbads |-> listed[i].lbads, capacity |-> listed[i].capacity])]

\* C15 (as claimed): every identify_namespaces(base) that returns Ok
\* returns exactly the namespaces the controller's responses describe, in
\* list order (so that a second call returns the same result).
C15_NamespacesAsIdentified ==
    [][(pc \in {"namespace_list", "namespace"} /\ pc' = "ready"
            /\ ret'.op = "identify_namespaces" /\ ret'.res = "Ok") =>
          ret'.value = NamespacesAbove(call.base)]_vars

----------------------------------------------------------------------------
(* Queue pairs of several ids on controllers of several doorbell strides:   *)
(* SpecBells.  The pair is the one create_io_queue_pair returns for its id  *)
(* on a controller whose CAP.DSTRD is the stride exponent.                  *)

QueueIds == 0..MaxPairId

StrideExponents == {0, DSTRD_MAX}

InitBells ==
    /\ xlate = LinearMap
    /\ heap = FreshHeap
    /\ listmem = EmptyMap
    /\ \E id \in QueueIds \ {0} : \E exp \in StrideExponents :
          qp = [id |-> id, max_transfer_size |-> ModelMdtsBytes, stride |-> exp,
                sub_ring |-> 0, comp_ring |-> 0]
    /\ namespace = [id |-> 1, block_size |-> 512]
    /\ \E size \in 2..MaxQueueLen :
          /\ sub_queue = SubQueueNew(size)
          /\ comp_queue = CompQueueNew(ZeroedCompSlots(size))
    /\ list_pool = <<>>
    /\ submitted = <<>>
    /\ dbell = EmptyMap
    /\ ioctrl = [sq_head |-> 0, cq_tail |-> 0, phase |-> TRUE, pending |-> <<>>]
    /\ last = [op |-> "none", res |-> "Ok", code |-> 0,
               db |-> <<>>, n |-> 0, entry |-> ZeroCompletion]
    /\ retry = NoRetry
    /\ mem = EmptyMap
    /\ disk = EmptyMap
    /\ client = NoClient
    /\ DevQuiet

SpecBells == InitBells /\ [][NextIo]_vars

\* The doorbell registers DoorbellHelper::write stores to for queue q.
BellsOf(q) == {DoorbellAddr(SubTail(q), qp.stride), DoorbellAddr(CompHead(q), qp.stride)}

\* C16 (as claimed): every doorbell store of the pair's read, write and
\* flush goes to the pair's own submit-tail or complete-head doorbell, and
\* to no doorbell of another queue: not to the admin doorbells of queue 0,
\* which the facade writes, and not to those of a pair with another id.
C16_DoorbellsOwned ==
    [][HostStep =>
          \A i \in 1..Len(last'.db) :
             /\ last'.db[i][1] \in BellsOf(qp.id)
             /\ \A q \in QueueIds \ {qp.id} : last'.db[i][1] \notin BellsOf(q)]_vars

----------------------------------------------------------------------------
(* The fields of the commands read and write post, for every size of       *)
(* transfer the validation of submit_and_track admits: SpecEncode.         *)

MaxEncodeCalls == 2

\* The transfers asked for: of no bytes, of one block, of whole pages, and
\* one the validation rejects; at a page boundary and at a dword inside a
\* page; at a logical block below and above 2^32.
EncodeRequests ==
    [bytes : {0, namespace.block_size, 2 * PAGE, 3 * PAGE, namespace.block_size + 100},
     lba : {Lba(0, 0), Lba(8, 1)},
     address : {BufA, BufA + 8},
     write : BOOLEAN]

InitEncode ==
    /\ \E size \in 2..MaxQueueLen :
          IoPairNew(size, ZeroedCompSlots(size), {LinearMap}, BlockSizes)
    /\ mem = EmptyMap
    /\ disk = EmptyMap
    /\ client = NoClient
    /\ DevQuiet

\* A caller that has not panicked calls read or write and remembers what it
\* asked for.
EncodeCall(r) ==
    /\ client.calls < MaxEncodeCalls
    /\ last.res # "Panic"
    /\ IF r.write THEN write(r.address, r.bytes, r.lba)
                  ELSE read(r.address, r.bytes, r.lba)
    /\ client' = [client EXCEPT !.calls = client.calls + 1, !.bytes = r.bytes,
                                !.lba = r.lba, !.src = r.address]

EncodeRead == \E r \in {q \in EncodeRequests : ~q.write} : EncodeCall(r)

EncodeWrite == \E r \in {q \in EncodeRequests : q.write} : EncodeCall(r)

EncodeFlush ==
    /\ last.res # "Panic"
    /\ IoFlush

\* The data pointer of cmd describes all the bytes the command transfers:
\* with no second PRP entry the transfer ends within the page of the first.
PrpCovers(cmd) ==
    \/ cmd.prp2 # 0
    \/ (cmd.prp1 % PAGE) + (cmd.cmd_12 + 1) * namespace.block_size <= PAGE

\* The controller completes a command successfully only if its data pointer
\* describes the transfer, and fails it otherwise.
CtrlIoPostChecked ==
    /\ ioctrl.pending # <<>>
    /\ \E sf \in IoStatusFields :
          /\ sf = 0 => PrpCovers(Head(ioctrl.pending))
          /\ CtrlIoComplete(sf)

NextEncode == EncodeRead \/ EncodeWrite \/ EncodeFlush \/ CtrlIoFetch \/ CtrlIoPostChecked

SpecEncode == InitEncode /\ [][NextEncode]_vars

\* The call of this step posted a command: it returned Ok and stored the
\* command in the slot at the old tail.
PostsCommand ==
    /\ HostStep
    /\ last'.op \in {"read", "write"}
    /\ last'.res = "Ok"
    /\ client'.calls = client.calls + 1

\* C17 (as claimed): every command a read or write posts carries
\* (bytes / block_size) - 1 in cmd12 and the low and high 32 bits of the
\* lba in cmd10 and cmd11.
C17_BlockCountAndLba ==
    [][PostsCommand =>
          LET cmd == sub_queue'.slots[sub_queue.tail]
          IN /\ cmd.cmd_12 = (client'.bytes \div namespace.block_size) - 1
             /\ cmd.cmd_10 = LowDword(client'.lba)
             /\ cmd.cmd_11 = HighDword(client'.lba)]_vars

----------------------------------------------------------------------------
(* The values init derives from CAP.                                        *)

\* C18 (as claimed): init takes the doorbell stride exponent from CAP bits
\* 35:32, min_pagesize as 2^(12 + bits 51:48) and max_queue_entries as
\* bits 15:0 plus one.
C18_CapFields ==
    [][(pc = "init" /\ pc' = "wait_disabled") =>
          /\ data'.stride = regs.cap.dstrd
          /\ data'.min_pagesize = Pow2(12 + regs.cap.mpsmin)
          /\ data'.max_queue_entries = regs.cap.mqes + 1]_vars

----------------------------------------------------------------------------
(* The submission ring of a queue pair.                                     *)

\* C19 (as claimed): after any reads, writes and flushes and any controller
\* steps, head and tail of the submission ring are in 0..N-1, head = tail
\* only when no command is outstanding, and a command is posted only while
\* fewer than N-1 posted commands are waiting for the controller to fetch
\* them, so that at most N-1 wait and no waiting command is overwritten.
C19_SubmissionRing ==
    /\ [](/\ sub_queue.head \in 0..(Size(sub_queue) - 1)
          /\ sub_queue.tail \in 0..(Size(sub_queue) - 1)
          /\ sub_queue.head = sub_queue.tail =>
                /\ submitted = <<>>
                /\ ioctrl.pending = <<>>
                /\ ioctrl.sq_head = sub_queue.tail)
    /\ [][sub_queue'.tail # sub_queue.tail =>
            /\ (sub_queue.tail + 1) % Size(sub_queue) # ioctrl.sq_head
            /\ sub_queue' = [sub_queue EXCEPT
                                !.slots[sub_queue.tail] = sub_queue'.slots[sub_queue.tail],
                                !.tail = (sub_queue.tail + 1) % Size(sub_queue)]]_vars

----------------------------------------------------------------------------
(* SubQueue::try_push and SubQueue::push over every position of head and    *)
(* tail: SpecRing.                                                          *)

\* SubQueue::push: try_push until it succeeds.  The ring does not change
\* while push spins, so push returns what try_push returns if that succeeds
\* and never returns otherwise.  Returns [returns, queue, tail].
push(q, entry) ==
    LET pushed == try_push(q, entry)
    IN [returns |-> pushed.ok, queue |-> pushed.queue, tail |-> pushed.tail]

\* The commands pushed.
RingCommands ==
    {read_write(7, 1, Lba(0, 0), 0, <<BufA, 0>>, FALSE),
     read_write(9, 1, Lba(8, 1), 7, <<BufA, BufB>>, TRUE)}

InitRing ==
    /\ xlate = LinearMap
    /\ heap = FreshHeap
    /\ listmem = EmptyMap
    /\ mem = EmptyMap
    /\ disk = EmptyMap
    /\ qp = [id |-> 1, max_transfer_size |-> ModelMdtsBytes, stride |-> 0,
             sub_ring |-> 0, comp_ring |-> 0]
    /\ namespace = [id |-> 1, block_size |-> 512]
    /\ \E size \in 2..MaxQueueLen :
          /\ sub_queue = SubQueueNew(size)
          /\ comp_queue = CompQueueNew(ZeroedCompSlots(size))
    /\ list_pool = <<>>
    /\ submitted = <<>>
    /\ dbell = EmptyMap
    /\ ioctrl = [sq_head |-> 0, cq_tail |-> 0, phase |-> TRUE, pending |-> <<>>]
    /\ last = [op |-> "none", res |-> "Ok", code |-> 0,
               db |-> <<>>, n |-> 0, entry |-> ZeroCompletion]
    /\ retry = NoRetry
    /\ client = NoClient
    /\ DevQuiet

ringquiet == <<xlate, heap, listmem, mem, disk, qp, namespace, comp_queue, list_pool,
               submitted, dbell, ioctrl, last, retry, client>>

\* A caller of try_push.
RingTryPush ==
    /\ \E entry \in RingCommands :
          LET pushed == try_push(sub_queue, entry)
          IN /\ sub_queue' = pushed.queue
             /\ ret' = IF pushed.ok THEN Returned("try_push", "Ok", 0, pushed.tail)
                       ELSE Returned("try_push", "QueueFull", 0, 0)
    /\ UNCHANGED ringquiet
    /\ UNCHANGED <<pc, regs, mmio, data, admin_sq, admin_cq, admin_buffer, next_id,
                   call, actrl>>

\* A caller of push, at the moment push returns.
RingPush ==
    /\ \E entry \in RingCommands :
          LET pushed == push(sub_queue, entry)
          IN /\ pushed.returns
             /\ sub_queue' = pushed.queue
             /\ ret' = Returned("push", "Ok", 0, pushed.tail)
    /\ UNCHANGED ringquiet
    /\ UNCHANGED <<pc, regs, mmio, data, admin_sq, admin_cq, admin_buffer, next_id,
                   call, actrl>>

\* The owner of the ring stores the position the controller reports as
\* consumed (flush, line 147): one past head, up to tail.
RingSetHead ==
    /\ \E h \in 0..(Size(sub_queue) - 1) :
          /\ h # sub_queue.head
          /\ (h - sub_queue.head) % Size(sub_queue)
                <= (sub_queue.tail - sub_queue.head) % Size(sub_queue)
          /\ sub_queue' = [sub_queue EXCEPT !.head = h]
    /\ ret' = Returned("flush", "Ok", 0, 0)
    /\ UNCHANGED ringquiet
    /\ UNCHANGED <<pc, regs, mmio, data, admin_sq, admin_cq, admin_buffer, next_id,
                   call, actrl>>

NextRing == RingTryPush \/ RingPush \/ RingSetHead

SpecRing == InitRing /\ [][NextRing]_vars

\* C20: try_push returns QueueFull exactly when head = (tail + 1) mod N and
\* then changes nothing of the ring; otherwise it stores the command in slot
\* tail, advances tail to (tail + 1) mod N, returns the new tail and leaves
\* head and the other slots as they were.  push, when it returns, has done
\* and returns what the successful try_push does.
C20_TryPushAndPush ==
    [][LET N == Size(sub_queue)
           full == sub_queue.head = (sub_queue.tail + 1) % N
           stored == \E entry \in RingCommands :
                        sub_queue' = [sub_queue EXCEPT
                                        !.slots[sub_queue.tail] = entry,
                                        !.tail = (sub_queue.tail + 1) % N]
       IN /\ ret'.op = "try_push" =>
               /\ ret'.res = "QueueFull" <=> full
               /\ full => sub_queue' = sub_queue
               /\ ~full => /\ stored
                           /\ ret'.res = "Ok"
                           /\ ret'.value = (sub_queue.tail + 1) % N
                           /\ ret'.value = sub_queue'.tail
          /\ ret'.op = "push" =>
               /\ ~full
               /\ stored
               /\ ret'.res = "Ok"
               /\ ret'.value = (sub_queue.tail + 1) % N]_vars

\* A try_push found the ring full after the tail had wrapped around to slot
\* 0, with a command in every slot.
C20_FullAfterWrap ==
    /\ ret.op = "try_push"
    /\ ret.res = "QueueFull"
    /\ sub_queue.tail = 0
    /\ sub_queue.head = 1
    /\ \A i \in DOMAIN sub_queue.slots : sub_queue.slots[i] \in RingCommands

----------------------------------------------------------------------------
(* CompQueue::try_pop, pop and pop_n against a controller that fills the    *)
(* ring in order: SpecCq.                                                   *)

\* Number of completions the model lets the host consume.
MaxPops == 7
\* The controller numbers its completions modulo SeqModulus in sq_head
\* (more than two passes of the largest ring, so that an entry of an
\* earlier pass never carries the number of the one that is due).
SeqModulus == 7

cqquiet == <<xlate, heap, listmem, mem, disk, qp, namespace, sub_queue, list_pool,
             submitted, dbell, retry>>

InitCq ==
    /\ xlate = LinearMap
    /\ heap = FreshHeap
    /\ listmem = EmptyMap
    /\ mem = EmptyMap
    /\ disk = EmptyMap
    /\ qp = [id |-> 1, max_transfer_size |-> ModelMdtsBytes, stride |-> 0,
             sub_ring |-> 0, comp_ring |-> 0]
    /\ namespace = [id |-> 1, block_size |-> 512]
    /\ \E size \in 2..MaxQueueLen :
          /\ sub_queue = SubQueueNew(size)
          /\ comp_queue = CompQueueNew(ZeroedCompSlots(size))
    /\ list_pool = <<>>
    /\ submitted = <<>>
    /\ dbell = EmptyMap
    /\ ioctrl = [sq_head |-> 0, cq_tail |-> 0, phase |-> TRUE, pending |-> <<>>]
    /\ last = [op |-> "none", res |-> "Ok", code |-> 0,
               db |-> <<>>, n |-> 0, entry |-> ZeroCompletion]
    /\ retry = NoRetry
    /\ client = NoClient
    /\ DevQuiet

\* The controller posts its next completion, numbered in sq_head and tagged
\* with the phase of its current pass, in the next slot; it never fills the
\* slot before the consumer's head.
CqPost ==
    /\ (ioctrl.cq_tail + 1) % Size(comp_queue) # comp_queue.head
    /\ \E sf \in IoStatusFields :
          LET t == (ioctrl.cq_tail + 1) % Size(comp_queue)
              seq == (ioctrl.sq_head + 1) % SeqModulus
              entry == Completion(seq, sf * 2 + (IF ioctrl.phase THEN 1 ELSE 0))
          IN /\ comp_queue' = [comp_queue EXCEPT !.slots[ioctrl.cq_tail] = entry]
             /\ ioctrl' = [ioctrl EXCEPT
                             !.sq_head = seq,
                             !.cq_tail = t,
                             !.phase = IF t = 0 THEN ~ioctrl.phase ELSE ioctrl.phase]
    /\ UNCHANGED <<last, client>>
    /\ UNCHANGED cqquiet
    /\ UNCHANGED devvars

\* What a pop reports: the head and the entry returned, and the number of
\* completions consumed by the call.
Popped(op, p, step) ==
    IF p.some THEN Report(op, "Some", p.head, <<>>, step, p.entry)
    ELSE Report(op, "None", 0, <<>>, 0, ZeroCompletion)

\* A caller of try_pop.
CqTryPop ==
    /\ client.calls < MaxPops
    /\ LET p == try_pop(comp_queue)
       IN /\ comp_queue' = p.queue
          /\ last' = Popped("try_pop", p, 1)
          /\ client' = [client EXCEPT !.calls = client.calls + (IF p.some THEN 1 ELSE 0)]
    /\ UNCHANGED ioctrl
    /\ UNCHANGED cqquiet
    /\ UNCHANGED devvars

\* A caller of pop, at the moment pop returns.
CqPop ==
    /\ client.calls < MaxPops
    /\ LET p == pop(comp_queue)
       IN /\ p.some
          /\ comp_queue' = p.queue
          /\ last' = Popped("pop", p, 1)
          /\ client' = [client EXCEPT !.calls = client.calls + 1]
    /\ UNCHANGED ioctrl
    /\ UNCHANGED cqquiet
    /\ UNCHANGED devvars

\* A caller of pop_n(step), at the moment pop_n returns.
CqPopN ==
    /\ \E step \in 1..(Size(comp_queue) - 1) :
          /\ client.calls + step <= MaxPops
          /\ LET p == pop_n(comp_queue, step)
             IN /\ p.some
                /\ comp_queue' = p.queue
                /\ last' = Popped("pop_n", p, step)
                /\ client' = [client EXCEPT !.calls = client.calls + step]
    /\ UNCHANGED ioctrl
    /\ UNCHANGED cqquiet
    /\ UNCHANGED devvars

NextCq == CqPost \/ CqTryPop \/ CqPop \/ CqPopN

SpecCq == InitCq /\ [][NextCq]_vars

\* C21: try_pop returns an entry exactly when bit 0 of the status of slot
\* head equals the ring's phase; it then returns a copy of that slot and the
\* new head (head + 1) mod N, and toggles phase exactly when the new head is
\* 0; otherwise it returns nothing and leaves head and phase unchanged.  It
\* never changes a slot.
C21_TryPop ==
    [][(last'.op = "try_pop" /\ ioctrl' = ioctrl) =>
          LET N == Size(comp_queue)
              tagged == (comp_queue.slots[comp_queue.head].status % 2) = 1
              h == (comp_queue.head + 1) % N
          IN /\ last'.res = "Some" <=> (tagged <=> comp_queue.phase)
             /\ comp_queue'.slots = comp_queue.slots
             /\ last'.res = "Some" =>
                   /\ last'.entry = comp_queue.slots[comp_queue.head]
                   /\ last'.code = h
                   /\ comp_queue'.head = h
                   /\ comp_queue'.phase = (IF h = 0 THEN ~comp_queue.phase
                                                    ELSE comp_queue.phase)
             /\ last'.res = "None" =>
                   /\ comp_queue'.head = comp_queue.head
                   /\ comp_queue'.phase = comp_queue.phase]_vars

\* A try_pop has returned the entry of the last slot of the ring's first
\* pass and toggled the phase, and slot 0 still holds the entry of that pass.
C21_WrappedAndToggled ==
    /\ last.op = "try_pop"
    /\ last.res = "Some"
    /\ last.code = 0
    /\ comp_queue.head = 0
    /\ comp_queue.phase = FALSE
    /\ comp_queue.slots[0].status % 2 = 1

\* C22: from a zeroed ring with head 0 and phase true, filled in order by a
\* controller that never laps the consumer, every pop and try_pop that
\* returns an entry returns the oldest completion posted and not yet
\* consumed, so each completion is returned once, in posting order, and no
\* entry of an earlier pass is returned; head is the number of completions
\* consumed modulo N and phase has toggled once per N of them, so after one
\* full pass slot 0 is accepted only with status bit 0 clear.
C22_PopsInPostingOrder ==
    /\ [](/\ comp_queue.head = client.calls % Size(comp_queue)
          /\ comp_queue.phase = ((client.calls \div Size(comp_queue)) % 2 = 0))
    /\ [][(last'.op \in {"pop", "try_pop"} /\ last'.res = "Some" /\ ioctrl' = ioctrl
            /\ client'.calls = client.calls + 1) =>
            /\ ioctrl.cq_tail # comp_queue.head
            /\ last'.entry.sq_head = (client.calls + 1) % SeqModulus
            /\ last'.entry.status % 2 =
                  (IF (client.calls \div Size(comp_queue)) % 2 = 0 THEN 1 ELSE 0)
            /\ client.calls = Size(comp_queue) => last'.entry.status % 2 = 0]_vars

\* After one full pass a pop has returned the entry the controller posted in
\* slot 0 on its second pass, whose status bit 0 is clear.
C22_SecondPassSlotZero ==
    /\ last.op = "pop"
    /\ last.res = "Some"
    /\ client.calls = Size(comp_queue) + 1
    /\ last.entry = comp_queue.slots[0]
    /\ last.entry.status % 2 = 0
    /\ last.entry.sq_head = (Size(comp_queue) + 1) % SeqModulus

RECURSIVE Pops(_, _)
\* step successive pops of q, each of which returns an entry.
\* Returns [some, queue, head, entry] of the last of them; some is false if
\* one of them found no entry.
Pops(q, step) ==
    LET p == pop(q)
    IN IF step = 1 \/ ~p.some THEN p ELSE Pops(p.queue, step - 1)

\* C23: for every ring size, head, phase and step in 1..N-1, with step
\* completions posted, pop_n(step) leaves head and phase as step successive
\* pops do and returns the (head, entry) pair of the last of them.
C23_PopNIsRepeatedPop ==
    [][(last'.op = "pop_n" /\ ioctrl' = ioctrl /\ client'.calls > client.calls) =>
          LET step == last'.n
              p == Pops(comp_queue, step)
          IN /\ step = client'.calls - client.calls
             /\ (ioctrl.cq_tail - comp_queue.head) % Size(comp_queue) >= step
             /\ p.some
             /\ comp_queue' = p.queue
             /\ last'.code = p.head
             /\ last'.entry = p.entry]_vars

\* A pop_n of N - 1 completions has jumped across the end of the ring and
\* returned the entry before its new head.
C23_JumpAcrossEnd ==
    /\ last.op = "pop_n"
    /\ last.n = Size(comp_queue) - 1
    /\ last.n > 1
    /\ comp_queue.head = 1
    /\ comp_queue.phase = FALSE
    /\ last.entry = comp_queue.slots[0]

----------------------------------------------------------------------------
(* PrpManager::create and PrpManager::release: SpecPrp.  A manager serves  *)
(* either a few transfers of every size up to 1024 pages ("wide"), or many *)
(* three-page transfers in flight at once ("bulk").                         *)

\* Pages of the large caller buffer.
WidePages == 1030
\* Transfers created in the wide workload.
MaxPrpCalls == 2
\* Transfers created, and transfers in flight at once, in the bulk workload.
MaxPoolCalls == 36
MaxOutstanding == 34

WideBuf == (VBase + VPages + 40) * PAGE

WideDomain == VBase..(VBase + VPages + 40 + WidePages)

\* translate() by a fixed offset, and by a page table that scatters the
\* pages of the large buffer.
WideLinearMap == [v \in WideDomain |-> v + 112]
WideScatterMap ==
    [v \in WideDomain |->
        IF v < VBase + VPages + 40 THEN v + 112
        ELSE 2048 + (((v - VBase) * 7) % (WidePages + 1))]

\* What memory the allocator hands out may hold: nothing, or what an earlier
\* owner of the first heap page left in it.
StrayListPage == (5 :> 3 * PAGE) @@ (PRP_ENTRIES - 1 :> 7 * PAGE)

PrpRequests(load) ==
    IF load = "bulk" THEN {[address |-> WideBuf, bytes |-> 3 * PAGE]}
    ELSE [address : {WideBuf, WideBuf + 2, WideBuf + 4, WideBuf + PAGE - 4},
          bytes : {0, 4, PAGE, PAGE + 4, 2 * PAGE, 3 * PAGE,
                   (PRP_ENTRIES + 1) * PAGE, (PRP_ENTRIES + 2) * PAGE,
                   2 * PRP_ENTRIES * PAGE}]

InitPrp ==
    /\ xlate \in {WideLinearMap, WideScatterMap}
    /\ heap = FreshHeap
    /\ \E load \in {"wide", "bulk"} :
          /\ client = [NoClient EXCEPT !.pc = load]
          /\ listmem \in {EmptyMap} \cup
                (IF load = "wide" THEN {(xlate[HeapBase] * PAGE :> StrayListPage)} ELSE {})
    /\ mem = EmptyMap
    /\ disk = EmptyMap
    /\ qp = [id |-> 1, max_transfer_size |-> ModelMdtsBytes, stride |-> 0,
             sub_ring |-> 0, comp_ring |-> 0]
    /\ namespace = [id |-> 1, block_size |-> 512]
    /\ sub_queue = SubQueueNew(2)
    /\ comp_queue = CompQueueNew(ZeroedCompSlots(2))
    /\ list_pool = <<>>
    /\ submitted = <<>>
    /\ dbell = EmptyMap
    /\ ioctrl = [sq_head |-> 0, cq_tail |-> 0, phase |-> TRUE, pending |-> <<>>]
    /\ last = [op |-> "none", res |-> "Ok", code |-> 0,
               db |-> <<>>, n |-> 0, entry |-> ZeroCompletion]
    /\ retry = NoRetry
    /\ DevQuiet

prpquiet == <<xlate, mem, disk, qp, namespace, sub_queue, comp_queue, dbell, ioctrl, retry>>

\* A caller of create; the result stays in flight until it is released.
PrpCreate ==
    /\ last.res # "Panic"
    /\ client.calls < (IF client.pc = "bulk" THEN MaxPoolCalls ELSE MaxPrpCalls)
    /\ Len(submitted) < MaxOutstanding
    /\ \E r \in PrpRequests(client.pc) :
          LET c == create(list_pool, heap, listmem, r.address, r.bytes)
          IN /\ list_pool' = c.pool
             /\ heap' = c.heap
             /\ listmem' = c.listmem
             /\ submitted' = IF c.err = "Ok" THEN Append(submitted, c.result)
                             ELSE submitted
             /\ last' = Report("create", c.err, 0, <<>>, 0, ZeroCompletion)
             /\ client' = [client EXCEPT !.calls = client.calls + 1,
                                         !.src = r.address, !.bytes = r.bytes]
    /\ UNCHANGED prpquiet
    /\ UNCHANGED devvars

\* A caller of release: for the oldest result in flight in the wide
\* workload, and for every result in flight, oldest first, as the loop of
\* flush does, in the bulk workload, whose caller flushes only a deep queue
\* (one that fills the pool but for one page, fills it, or overfills it).
PrpRelease ==
    /\ last.res # "Panic"
    /\ submitted # <<>>
    /\ client.pc = "bulk" => Len(submitted) >= POOL_CAPACITY - 1
    /\ LET all == client.pc = "bulk"
           rel == IF all THEN release_all([pool |-> list_pool, heap |-> heap], submitted)
                  ELSE release([pool |-> list_pool, heap |-> heap], Head(submitted))
       IN /\ list_pool' = rel.pool
          /\ heap' = rel.heap
          /\ submitted' = IF all THEN <<>> ELSE Tail(submitted)
          /\ last' = Report("release", "Ok", 0, <<>>, Len(submitted) - Len(submitted'),
                            ZeroCompletion)
    /\ UNCHANGED <<listmem, client>>
    /\ UNCHANGED prpquiet
    /\ UNCHANGED devvars

NextPrp == PrpCreate \/ PrpRelease

SpecPrp == InitPrp /\ [][NextPrp]_vars

\* The step is a call of create.
CreateStep == last'.op = "create" /\ client'.calls = client.calls + 1

\* C24: create computes count = ceil((address mod 4096 + bytes) / 4096); an
\* address that is not 4-byte aligned gives NotAlignedToDword; count = 1
\* gives Single(translate(address)); count >= 2 at an address that is not
\* page-aligned gives NotAlignedToPage; count = 2 gives
\* Double(translate(address), translate(address + 4096)); count > 2 gives
\* List.  Every Single has bytes + address mod 4096 <= 4096 and every Double
\* has bytes <= 8192 at a page-aligned address.
C24_PrpForm ==
    [][CreateStep =>
          LET address == client'.src
              bytes == client'.bytes
              count == ((address % PAGE) + bytes + PAGE - 1) \div PAGE
              phys(a) == xlate[a \div PAGE] * PAGE + (a % PAGE)
              result == submitted'[Len(submitted')]
              made == last'.res = "Ok" /\ Len(submitted') = Len(submitted) + 1
          IN /\ address % 4 # 0 <=> last'.res = "NotAlignedToDword"
             /\ (address % 4 = 0 /\ count = 1) => made /\ result = Single(phys(address))
             /\ (address % 4 = 0 /\ count >= 2 /\ address % PAGE # 0) =>
                   last'.res = "NotAlignedToPage"
             /\ (address % PAGE = 0 /\ count = 2) =>
                   made /\ result = Double(phys(address), phys(address + PAGE))
             /\ (address % PAGE = 0 /\ count > 2) =>
                   made /\ result.kind = "List" /\ result.prp1 = phys(address)
             /\ (made /\ result.kind = "Single") => bytes + (address % PAGE) <= PAGE
             /\ (made /\ result.kind = "Double") =>
                   bytes <= 2 * PAGE /\ address % PAGE = 0
             /\ last'.res \notin {"Ok", "Panic"} =>
                   UNCHANGED <<list_pool, heap, listmem, submitted>>]_vars

\* A create inside a page, 4 bytes before its end, has failed for crossing
\* into the next page, after a Double and with a scattering translate.
C24_CrossingUnaligned ==
    /\ last.op = "create"
    /\ last.res = "NotAlignedToPage"
    /\ client.src = WideBuf + PAGE - 4
    /\ client.bytes = PAGE
    /\ xlate = WideScatterMap
    /\ Len(submitted) = 1
    /\ submitted[1].kind = "Double"
    /\ submitted[1].prp2 # submitted[1].prp1 + PAGE

\* C25 (as claimed): for a List result over count > 2 pages and any
\* translate, there are ceil((count - 2) / 511) list pages; the j-th payload
\* entry overall, j in 1..count-1, is translate(address + 4096 * j); every
\* page but the last holds 511 payload entries and in slot 511 the physical
\* address of the next page; the last page holds the rest; PRP2 is the
\* physical address of the first list page.
C25_ListEnumeratesPages ==
    [][(CreateStep /\ last'.res = "Ok" /\ submitted'[Len(submitted')].kind = "List") =>
          LET address == client'.src
              count == ((address % PAGE) + client'.bytes + PAGE - 1) \div PAGE
              phys(a) == xlate[a \div PAGE] * PAGE + (a % PAGE)
              result == submitted'[Len(submitted')]
              lists == result.lists
              n == Len(lists)
              PageOf(j) == IF (j - 1) \div PRP_PAYLOAD >= n THEN n
                           ELSE ((j - 1) \div PRP_PAYLOAD) + 1
          IN /\ n = (count - 2 + PRP_PAYLOAD - 1) \div PRP_PAYLOAD
             /\ get_prp(result) = <<phys(address), phys(lists[1].addr)>>
             /\ \A k \in 1..n : lists[k].phys_addr = phys(lists[k].addr)
             /\ \A k \in 1..(n - 1) :
                   Get(listmem'[lists[k].phys_addr], PRP_ENTRIES - 1) = lists[k + 1].phys_addr
             /\ \A j \in 1..(count - 1) :
                   Get(listmem'[lists[PageOf(j)].phys_addr],
                       (j - 1) - (PageOf(j) - 1) * PRP_PAYLOAD) = phys(address + PAGE * j)]_vars

RECURSIVE ListPages(_)
\* The list pages of a sequence of results, in the order release meets them.
ListPages(results) ==
    IF results = <<>> THEN <<>>
    ELSE Head(results).lists \o ListPages(Tail(results))

\* C26: the pool never holds more than its capacity of 32 pages; release
\* of a List puts each page back while the pool has room and deallocates it
\* otherwise; release of a Single or Double changes neither pool nor
\* allocator; create takes its list pages from the pool as long as the pool
\* has any and allocates only the pages the pool could not give.
C26_PoolBounded ==
    /\ [](Len(list_pool) <= POOL_CAPACITY)
    /\ [][/\ (last'.op = "release" /\ Len(submitted') < Len(submitted)) =>
              LET pages == ListPages(SubSeq(submitted, 1, Len(submitted) - Len(submitted')))
                  room == POOL_CAPACITY - Len(list_pool)
                  kept == IF Len(pages) <= room THEN Len(pages) ELSE room
              IN /\ list_pool' = list_pool \o SubSeq(pages, 1, kept)
                 /\ heap'.freed = heap.freed \o
                       [i \in 1..(Len(pages) - kept) |-> pages[kept + i].addr]
                 /\ heap'.live = heap.live \ {pages[i].addr : i \in (kept + 1)..Len(pages)}
                 /\ heap'.next = heap.next
           /\ (CreateStep /\ last'.res = "Ok") =>
              LET lists == submitted'[Len(submitted')].lists
                  n == Len(lists)
                  taken == IF Len(list_pool) <= n THEN Len(list_pool) ELSE n
              IN /\ \A i \in 1..taken : lists[i] = list_pool[i]
                 /\ list_pool' = SubSeq(list_pool, taken + 1, Len(list_pool))
                 /\ heap'.next = heap.next + (n - taken)
                 /\ heap'.live = heap.live \cup {lists[i].addr : i \in (taken + 1)..n}
                 /\ \A i \in (taken + 1)..n : lists[i].addr \notin heap.live
                 /\ heap'.freed = heap.freed]_vars

\* A release has filled the pool to its capacity and deallocated the pages
\* that did not fit.
C26_PoolFullAndPageFreed ==
    /\ last.op = "release"
    /\ Len(list_pool) = POOL_CAPACITY
    /\ Len(heap.freed) = 2
    /\ submitted = <<>>

\* C27 (as claimed): in every list page of a List result, every slot beyond
\* the page's payload entries, other than the chain pointer in slot 511 of
\* a page that is not the last, is 0, whether the page was freshly allocated
\* or came from the pool.
C27_ListPagesCleared ==
    [][(CreateStep /\ last'.res = "Ok" /\ submitted'[Len(submitted')].kind = "List") =>
          LET address == client'.src
              count == ((address % PAGE) + client'.bytes + PAGE - 1) \div PAGE
              lists == submitted'[Len(submitted')].lists
              n == Len(lists)
              Payload(k) == IF k < n THEN PRP_PAYLOAD
                            ELSE (count - 1) - (n - 1) * PRP_PAYLOAD
          IN \A k \in 1..n : \A slot \in 0..(PRP_ENTRIES - 1) :
                (slot >= Payload(k) /\ ~(k < n /\ slot = PRP_ENTRIES - 1)) =>
                   Get(listmem'[lists[k].phys_addr], slot) = 0]_vars

----------------------------------------------------------------------------
(* Command identifiers.                                                     *)

\* C28 (as claimed): every command pushed to a submission ring, I/O or
\* admin, carries as cmd_id the ring's tail at the moment it is pushed, the
\* index of its slot.
C28_CmdIdIsTail ==
    [][/\ AdminPosts => AdminPosted.cmd_id = admin_sq.tail
       /\ sub_queue'.tail # sub_queue.tail =>
             sub_queue'.slots[sub_queue.tail].cmd_id = sub_queue.tail]_vars

----------------------------------------------------------------------------
(* Doorbell addresses.                                                      *)

\* C29 (as claimed): for base B, stride exponent S and queue id q the
\* submit-tail doorbell is stored at B + 0x1000 + (2q) * (4 << S) and the
\* complete-head doorbell at B + 0x1000 + (2q + 1) * (4 << S), computed
\* without loss, so that different doorbells have different addresses.
C29_DoorbellFormula ==
    [][HostStep =>
          \A i \in 1..Len(last'.db) :
             last'.db[i][1] =
                MmioBase + 4096
                  + (IF last'.op = "flush" THEN 2 * qp.id + 1 ELSE 2 * qp.id)
                      * (4 * (2 ^ qp.stride))]_vars


----------------------------------------------------------------------------
(* The facade under a long run of calls on a controller that completes     *)
(* every admin command successfully: SpecLive.                             *)

\* Number of facade calls (after init) the long run follows.
MaxLiveCalls == 32

\* The caller has entered a facade call that has not returned yet.
InCall == client.pc = "entered" /\ client.src = client.calls

\* Freshly allocated rings that happen to be zero-filled, so that no stale
\* completion is consumed in the run.
InitLive ==
    /\ InitAdmin
    /\ admin_cq = CompQueueNew(ZeroedCompSlots(ADMIN_QUEUE_SIZE))

\* The caller enters its next call: the device is exclusively borrowed
\* (&mut self) until the call returns.  The base of its namespace listings
\* is chosen with the first call.
LiveEnter ==
    /\ pc = "ready"
    /\ ~InCall
    /\ client.calls < MaxLiveCalls
    /\ \E base \in {0, 1} :
          client' = [client EXCEPT !.pc = "entered", !.src = client.calls,
                                   !.dst = IF client.calls = 0 THEN base ELSE client.dst]
    /\ UNCHANGED <<pc, regs, mmio, data, admin_sq, admin_cq, admin_buffer, next_id,
                   call, ret, actrl, dbell, heap>>
    /\ UNCHANGED pairvars
    /\ UNCHANGED idlevars

\* The calls of the run: a pair is created, deleted, and the namespaces are
\* listed twice, over and over.
LiveCreate ==
    /\ InCall
    /\ client.calls % 4 < 2
    /\ \E ns \in ModelNamespaces : CreateIoQueuePair(ns, 2)

LiveDelete == InCall /\ client.calls % 4 < 2 /\ DeleteIoQueuePair

LiveIdentify == InCall /\ client.calls % 4 >= 2 /\ IdentifyNamespaces(client.dst)

\* The controller completes the next admin command successfully.
CtrlAdminSuccess == CtrlAdmin(0)

\* The steps of the thread that runs init and the facade calls.
LiveHost ==
    \/ InitDisable \/ InitProgram \/ InitIdentify \/ InitFinish
    \/ LiveIdentify \/ NamespaceListDone \/ NamespaceDone
    \/ LiveCreate \/ CreateCqDone \/ CreateSqDone
    \/ LiveDelete \/ DeleteSqDone \/ DeleteCqDone

NextLive == LiveEnter \/ LiveHost \/ CtrlReady \/ CtrlAdminSuccess

\* The thread inside a call keeps running (its waits are spin loops), and
\* the controller keeps serving the doorbells it was rung on.
SpecLive ==
    /\ InitLive
    /\ [][NextLive]_vars
    /\ WF_vars(LiveHost)
    /\ WF_vars(CtrlReady)
    /\ WF_vars(CtrlAdminSuccess)

\* C30: on a controller that completes every admin command successfully,
\* every call of identify_namespaces, create_io_queue_pair and
\* delete_io_queue_pair that was entered eventually returns, however many
\* admin commands ran on the 64-slot admin ring before it.
C30_AdminCallsReturn == InCall ~> ~InCall


----------------------------------------------------------------------------
(* nvme.rs: the unbatched IoQueuePair, whose read and write submit one     *)
(* command and wait for its completion: SpecSync.  The variable            *)
(* `submitted` holds the local prp_result of handle_read_write while the   *)
(* call is between submit_io and the release.                              *)

RECURSIVE BitOr(_, _)
\* The bitwise or of two naturals.
BitOr(a, b) ==
    IF a = 0 THEN b
    ELSE IF b = 0 THEN a
    ELSE (IF a % 2 = 1 \/ b % 2 = 1 THEN 1 ELSE 0) + 2 * BitOr(a \div 2, b \div 2)

\* IoQueuePair::submit_io's command id, `*self.id << 10 | tail as u16`.
sync_cmd_id(id, tail) == BitOr((id * 1024) % U16, tail % U16)

\* handle_read_write up to the return of submit_io (lines 120-128 and
\* 72-94): validate, build the PRP result, post the command, ring the
\* submit doorbell.  An error of create or of try_push leaves through `?`:
\* the local result goes out of scope, and nothing releases it.
sync_submit(bytes, lba, address, is_write) ==
    LET op == IF is_write THEN "write" ELSE "read"
        Fail(res) ==
            /\ last' = Report(op, res, 0, <<>>, 0, ZeroCompletion)
            /\ client' = [client EXCEPT !.calls = client.calls + 1]
            /\ UNCHANGED <<heap, listmem, sub_queue, list_pool, submitted, dbell>>
    IN
    /\ client.pc = "free"
    /\ IF bytes > qp.max_transfer_size THEN Fail("IoSizeExceedsMdts")
       ELSE IF bytes % namespace.block_size # 0 THEN Fail("InvalidBufferSize")
       ELSE
         LET blocks == (bytes \div namespace.block_size) % U16
             c == create(list_pool, heap, listmem, address, blocks * 512)
         IN IF c.err # "Ok" THEN Fail(c.err)
            ELSE
              LET prp == get_prp(c.result)
                  command == read_write(sync_cmd_id(qp.id, sub_queue.tail), namespace.id,
                                        lba, (blocks + U16 - 1) % U16, prp, is_write)
                  pushed == try_push(sub_queue, command)
                  bell == DoorbellAddr(SubTail(qp.id), qp.stride)
              IN /\ list_pool' = c.pool
                 /\ heap' = c.heap
                 /\ listmem' = c.listmem
                 /\ sub_queue' = pushed.queue
                 /\ IF pushed.ok
                    THEN /\ dbell' = doorbell_write(dbell, bell, pushed.tail)
                         /\ submitted' = <<c.result>>
                         /\ last' = Report(op, "Submitted", 0, <<<<bell, pushed.tail>>>>, 0,
                                           ZeroCompletion)
                         /\ client' = [client EXCEPT !.pc = "complete_io",
                                                  !.calls = client.calls + 1]
                    ELSE /\ last' = Report(op, "QueueFull", 0, <<>>, 0, ZeroCompletion)
                         /\ client' = [client EXCEPT !.calls = client.calls + 1]
                         /\ UNCHANGED <<submitted, dbell>>
    /\ UNCHANGED <<xlate, mem, disk, qp, namespace, comp_queue, ioctrl, retry>>
    /\ UNCHANGED devvars

\* handle_read_write from complete_io(1) on (lines 129-133 and 98-108): pop
\* the completion, ring the complete doorbell; a failure status leaves
\* through `?` before the head is set and before the release.
sync_complete ==
    LET popped == pop_n(comp_queue, 1)
        bell == DoorbellAddr(CompHead(qp.id), qp.stride)
        status == (popped.entry.status \div 2) % 256
        rel == release([pool |-> list_pool, heap |-> heap], submitted[1])
    IN
    /\ client.pc = "complete_io"
    /\ popped.some
    /\ comp_queue' = popped.queue
    /\ dbell' = doorbell_write(dbell, bell, popped.head)
    /\ submitted' = <<>>
    /\ client' = [client EXCEPT !.pc = "free"]
    /\ IF status # 0
       THEN /\ last' = Report(last.op, "CommandFailed", status, <<<<bell, popped.head>>>>,
                              1, popped.entry)
            /\ UNCHANGED <<sub_queue, list_pool, heap>>
       ELSE /\ last' = Report(last.op, "Ok", 0, <<<<bell, popped.head>>>>, 1, popped.entry)
            /\ sub_queue' = [sub_queue EXCEPT !.head = popped.entry.sq_head]
            /\ list_pool' = rel.pool
            /\ heap' = rel.heap
    /\ UNCHANGED <<xlate, listmem, mem, disk, qp, namespace, ioctrl, retry>>
    /\ UNCHANGED devvars


\* A pair whose completion ring came zero-filled from the allocator, so
\* that no stale completion is consumed.
InitSync ==
    /\ \E size \in 2..MaxQueueLen : IoPairNew(size, ZeroedCompSlots(size), {LinearMap}, {512})
    /\ mem = EmptyMap
    /\ disk = EmptyMap
    /\ client = NoClient
    /\ DevQuiet

SyncRead ==
    /\ client.calls < MaxIoCalls
    /\ \E r \in {q \in Requests : ~q.write} : sync_submit(r.bytes, r.lba, r.address, FALSE)

SyncWrite ==
    /\ client.calls < MaxIoCalls
    /\ \E r \in {q \in Requests : q.write} : sync_submit(r.bytes, r.lba, r.address, TRUE)

SyncComplete == sync_complete

NextSync == SyncRead \/ SyncWrite \/ SyncComplete \/ CtrlIoFetch \/ CtrlIoPost

SpecSync == InitSync /\ [][NextSync]_vars

\* The number of places that hold the list page at address a: slots of the
\* pool, results of commands in flight, and deallocations.
PlacesOf(a) ==
    LET held == ListPages(submitted)
    IN Cardinality({i \in 1..Len(list_pool) : list_pool[i].addr = a})
         + Cardinality({i \in 1..Len(held) : held[i].addr = a})
         + Cardinality({i \in 1..Len(heap.freed) : heap.freed[i] = a})

\* C31 (as claimed): every PRP list page obtained from the allocator is at
\* all times in exactly one place, the pool, the result of one command in
\* flight, or deallocated; a page is live with the allocator exactly while
\* it is not deallocated.
C31_ListPagesInOnePlace ==
    \A n \in HeapBase..(heap.next - 1) :
       /\ PlacesOf(n * PAGE) = 1
       /\ (n * PAGE) \in heap.live <=> (\A i \in 1..Len(heap.freed) : heap.freed[i] # n * PAGE)


\* The completions of the batch a flush is about to consume: the slots
\* from the head of the completion ring on, one per command in flight.
BatchEntries ==
    [k \in 1..Len(submitted) |->
        comp_queue.slots[(comp_queue.head + k - 1) % Size(comp_queue)]]

\* C32 (as claimed): a flush of a batch returns Ok only if every command
\* of the batch completed with status zero; if any of them, not only the
\* last, completed with a nonzero status, it returns CommandFailed.
C32_FlushOkMeansAllOk ==
    [][(HostStep /\ last'.op = "flush" /\ submitted # <<>>) =>
          /\ last'.res \in {"Ok", "CommandFailed"}
          /\ last'.res = "Ok" =>
                \A k \in 1..Len(submitted) : BatchEntries[k].status \div 2 = 0]_vars

====
